---- MODULE Spec2Model ----
(***************************************************************************)
(* A model of the learning engine of the assemblies repository:            *)
(*   - LearningSequence (learning/components/sequence.py, and the older    *)
(*     learning/learning_sequence.py, whose scheduler is line for line the *)
(*     same): the connectivity graph, add_iteration, finalize_sequence,    *)
(*     initialize_run and the iterator protocol (__iter__ / __next__);     *)
(*   - LearningModel (learning/learning_model.py and learning/model.py):   *)
(*     train / test / run, the scoped switch of the brain's mode, the      *)
(*     lazily created output area and terminate.                           *)
(* Python exceptions are modelled as the status of the operation that      *)
(* raised them, recorded in the variable last.                             *)
(***************************************************************************)
EXTENDS Integers, Sequences, FiniteSets, TLC

None == "None"

(***************************************************************************)
(* Bounds of the exploration.                                              *)
(***************************************************************************)
\* the longest list of iterations a sequence is given
MaxIterations == 2
\* consecutive_runs is drawn from 0..MaxRuns (add_iteration checks nothing)
MaxRuns == 2
\* number_of_cycles is drawn from 0..MaxCycles
MaxCycles == 2
\* how many add_iteration calls may fail in one behaviour
MaxFailedAdds == 1

(***************************************************************************)
(* The brain the sequence is declared against (tests/test_learning: areas, *)
(* stimuli and output areas are looked up by name).  "Z" is a name no      *)
(* registry holds.                                                         *)
(***************************************************************************)
BrainStimuli == {"A", "B"}
BrainAreas == {"A", "B"}
BrainOutputAreas == {"output", "output2"}

VARIABLES
  iterations,      \* LearningSequence._iterations
  graph,           \* LearningSequence._connections_graph: [nodes, weight]
  finalized,       \* LearningSequence._finalized
  output_area,     \* LearningSequence.output_area, bound by finalize_sequence
  configuration,   \* LearningSequence._configuration: <<>> for None, else <<cursor>>
  last,            \* the last operation and how it ended: [op, status, value]
  run,             \* history of the current run: what __next__ returned since
                   \* the last successful initialize_run
  failed_adds,     \* number of add_iteration calls that raised so far
  ever_finalized,  \* history: finalize_sequence has returned normally before
  impl,            \* which LearningModel class: "learning_model" (learning_model.py)
                   \* or "model" (model.py)
  domain_size,     \* LearningModel._domain_size
  brain_mode,      \* brain.mode (learning_model.py), brain.learning_mode (model.py)
  brain_output_areas,  \* brain.output_areas: name -> desired_output (<<>> when unset)
  inactivated,     \* LearningModel._inactivated
  model_output_area,   \* LearningModel._output_area: None or the name of the area
  call,            \* the model operation in progress and where it stands
  trace,           \* history of the current (or last) model operation
  ops_started,     \* number of model operations that got past their entry checks
  peer,            \* a second LearningModel on the same brain: <<>> when there is
                   \* none, else <<[id, output_area, inactivated]>>
  brain_stimuli,   \* brain.stimuli as InputStimuli sees it: the items <<name, k>>
  input_bits,      \* _input_bits of the InputStimuli constructed last
  construction,    \* the InputStimuli constructor call: its arguments and where it stands
  pure,            \* a call of a function without state: its arguments and its result
  data_set,        \* a TrainingSet or TestingSet: its fields and what it has yielded
  scoped           \* two models inside _set_training_mode on one brain

seqVars == <<iterations, graph, finalized, output_area, configuration, run, failed_adds,
             ever_finalized>>

modelVars == <<impl, domain_size, brain_mode, brain_output_areas, inactivated,
               model_output_area, call, trace, ops_started>>

inputVars == <<brain_stimuli, input_bits, construction>>

dataVars == <<data_set, scoped>>

otherVars == <<peer, inputVars, pure, dataVars>>

vars == <<seqVars, last, modelVars, otherVars>>

(***************************************************************************)
(* The connectivity graph.  A node of networkx is the string               *)
(* '<kind>-<name>' with kind one of stimulus, input-bit, area, output; no  *)
(* kind is a prefix of another, so startswith(kind) is the test of the     *)
(* first component of the pair <<kind, name>> used here.  nodes keeps      *)
(* networkx's insertion order.  The display position of a node is not      *)
(* modelled.                                                               *)
(***************************************************************************)
EmptyGraph == [nodes |-> <<>>, weight |-> [e \in {} |-> 0]]

NodeSet(g) == {g.nodes[i] : i \in 1..Len(g.nodes)}

HasEdge(g, s, t) == <<s, t>> \in DOMAIN g.weight

AddNode(g, n) == IF n \in NodeSet(g) THEN g ELSE [g EXCEPT !.nodes = Append(@, n)]

\* _add_edge without the addition of the previous weight
_add_edgeOverwriting(g, source_node, target_node, w) ==
  LET g1 == AddNode(AddNode(g, source_node), target_node)
  IN [g1 EXCEPT !.weight = [e \in (DOMAIN g.weight) \cup {<<source_node, target_node>>} |->
                               IF e = <<source_node, target_node>> THEN w ELSE g.weight[e]]]

\* LearningSequence._add_edge: both nodes are created when missing, and the
\* weight of an existing edge is added to.
_add_edge(g, source_node, target_node, w) ==
  LET g1 == AddNode(AddNode(g, source_node), target_node)
      new == IF HasEdge(g, source_node, target_node)
             THEN w + g.weight[<<source_node, target_node>>]
             ELSE w
  IN [g1 EXCEPT !.weight = [e \in (DOMAIN g.weight) \cup {<<source_node, target_node>>} |->
                               IF e = <<source_node, target_node>> THEN new ELSE g.weight[e]]]

\* LearningSequence._verify_and_get_area: the kind of the object returned
\* for a name, or None when the name is in neither registry.
_verify_and_get_area(area_name) ==
  IF area_name \in BrainAreas THEN "area"
  ELSE IF area_name \in BrainOutputAreas THEN "output"
  ELSE None

\* LearningSequence._verify_stimulus
_verify_stimulus(stimulus_name) == stimulus_name \in BrainStimuli

(***************************************************************************)
(* add_iteration walks the three mappings in the order stimuli, input      *)
(* bits, areas; each mapping is kept here as the sequence of its           *)
(* <<source, target>> pairs in dict order.  A step returns the graph so    *)
(* far and the exception raised, if any: edges added before the exception  *)
(* stay in the graph.                                                      *)
(***************************************************************************)
RECURSIVE AddPairs(_, _, _, _, _)
AddPairs(kind, pairs, i, st, w) ==
  IF st.error # <<>> \/ i > Len(pairs) THEN st
  ELSE LET source == pairs[i][1]
           target == pairs[i][2]
           source_ok == CASE kind = "stimulus" -> _verify_stimulus(source)
                          [] kind = "input-bit" -> TRUE
                          [] OTHER -> _verify_and_get_area(source) # None
       IN IF ~source_ok
          THEN [st EXCEPT !.error = <<IF kind = "stimulus" THEN "MissingStimulus" ELSE "MissingArea", source>>]
          ELSE IF _verify_and_get_area(target) = None
          THEN [st EXCEPT !.error = <<"MissingArea", target>>]
          ELSE AddPairs(kind, pairs, i + 1,
                        [st EXCEPT !.graph = _add_edge(@, <<kind, source>>,
                                                       <<_verify_and_get_area(target), target>>, w)],
                        w)

AddAll(g, decl, w) ==
  LET s1 == AddPairs("stimulus", decl.stimuli_to_areas, 1, [graph |-> g, error |-> <<>>], w)
      s2 == AddPairs("input-bit", decl.input_bits_to_areas, 1, s1, w)
  IN AddPairs("area", decl.areas_to_areas, 1, s2, w)

Decl(s, b, a) == [stimuli_to_areas |-> s, input_bits_to_areas |-> b, areas_to_areas |-> a]

\* The declarations add_iteration is called with.
Declarations ==
  { Decl(<< <<"A", "A">> >>, <<>>, <<>>),
    Decl(<<>>, <<>>, << <<"A", "output">> >>),
    Decl(<< <<"A", "output">> >>, <<>>, <<>>),
    Decl(<<>>, << <<"0", "A">> >>, <<>>),
    Decl(<< <<"B", "B">> >>, <<>>, <<>>),
    Decl(<<>>, << <<"0", "B">> >>, <<>>),
    Decl(<<>>, <<>>, << <<"B", "output2">> >>),
    Decl(<< <<"A", "output">>, <<"A", "Z">> >>, <<>>, <<>>),
    Decl(<< <<"Z", "A">> >>, <<>>, <<>>) }

\* The declaration the scheduler is explored with: alone it makes a
\* sequence that validates.
RunDeclarations == { Decl(<< <<"A", "output">> >>, <<>>, <<>>) }

\* LearningSequence.Iteration.__init__
Iteration(decl, consecutive_runs) ==
  [stimuli_to_areas |-> decl.stimuli_to_areas,
   input_bits_to_areas |-> decl.input_bits_to_areas,
   areas_to_areas |-> decl.areas_to_areas,
   consecutive_runs |-> consecutive_runs]

(***************************************************************************)
(* finalize_sequence.                                                      *)
(***************************************************************************)
NodesOfKind(g, kind) == SelectSeq(g.nodes, LAMBDA n : n[1] = kind)

Successors(g, S) == {e[2] : e \in {d \in DOMAIN g.weight : d[1] \in S}}

RECURSIVE Reach(_, _)
Reach(g, S) ==
  LET T == S \cup Successors(g, S)
  IN IF T = S THEN S ELSE Reach(g, T)

\* networkx.has_path
has_path(g, source, target) == target \in Reach(g, {source})

\* The first <<source, output>> pair, sources and outputs in node order,
\* that no path joins; <<>> when every source reaches every output.
RECURSIVE FirstUnconnected(_, _, _, _, _)
FirstUnconnected(g, sources, outputs, i, j) ==
  IF i > Len(sources) THEN <<>>
  ELSE IF j > Len(outputs) THEN FirstUnconnected(g, sources, outputs, i + 1, 1)
  ELSE IF ~has_path(g, sources[i], outputs[j]) THEN <<sources[i][2], outputs[j][2]>>
  ELSE FirstUnconnected(g, sources, outputs, i, j + 1)

\* LearningSequence._verify_stimuli_are_connected_to_output
_verify_stimuli_are_connected_to_output(g) ==
  FirstUnconnected(g, NodesOfKind(g, "stimulus"), NodesOfKind(g, "output"), 1, 1)

\* LearningSequence._verify_input_bits_are_connected_to_output
_verify_input_bits_are_connected_to_output(g) ==
  FirstUnconnected(g, NodesOfKind(g, "input-bit"), NodesOfKind(g, "output"), 1, 1)

\* LearningSequence._verify_single_output_area: the names of the output nodes
_verify_single_output_area(g) ==
  LET outs == NodesOfKind(g, "output")
  IN [n \in 1..Len(outs) |-> outs[n][2]]

\* LearningSequence.finalize_sequence: how it ends, and the output_area
\* attribute afterwards (it is bound before the paths are verified).
\* _finalized is assigned nowhere but in __init__.
finalize_sequence(g, out) ==
  LET output_areas == _verify_single_output_area(g)
      bits == _verify_input_bits_are_connected_to_output(g)
      stims == _verify_stimuli_are_connected_to_output(g)
  IN IF Len(output_areas) # 1
     THEN [status |-> "IllegalOutputAreasException", value |-> output_areas,
           output_area |-> out, finalized |-> FALSE]
     ELSE IF bits # <<>>
     THEN [status |-> "NoPathException", value |-> bits,
           output_area |-> output_areas[1], finalized |-> FALSE]
     ELSE IF stims # <<>>
     THEN [status |-> "NoPathException", value |-> stims,
           output_area |-> output_areas[1], finalized |-> FALSE]
     ELSE [status |-> "ok", value |-> None,
           output_area |-> output_areas[1], finalized |-> FALSE]

(***************************************************************************)
(* The cursor and the iterator protocol.  current_iter is 0-based as in    *)
(* the source; the n-th iteration is iterations[n + 1] here.               *)
(***************************************************************************)
\* LearningSequence.IterationConfiguration.__init__
IterationConfiguration(current_cycle, current_iter, current_run, number_of_cycles) ==
  [current_cycle |-> current_cycle, current_iter |-> current_iter,
   current_run |-> current_run, number_of_cycles |-> number_of_cycles,
   activated |-> FALSE]

\* __iter__ without the test of activated
__iter__IgnoringActivated(cfg) ==
  IF cfg = <<>> THEN "SequenceRunNotInitialized" ELSE "ok"

\* LearningSequence.__iter__
__iter__(cfg) ==
  IF cfg = <<>> \/ cfg[1].activated THEN "SequenceRunNotInitialized" ELSE "ok"

\* LearningSequence.__next__: the cursor afterwards and what the call
\* gives: the index of the iteration returned, or the exception raised.
\* Indexing _iterations out of range is Python's IndexError.
__next__(cfg, its) ==
  IF cfg = <<>> THEN [cfg |-> cfg, status |-> "SequenceRunNotInitialized", value |-> None]
  ELSE LET c1 == [cfg[1] EXCEPT !.current_run = @ + 1]
       IN IF c1.current_iter >= Len(its)
          THEN [cfg |-> <<c1>>, status |-> "IndexError", value |-> None]
          ELSE IF c1.current_run >= its[c1.current_iter + 1].consecutive_runs
          THEN LET c2 == [c1 EXCEPT !.current_run = 0, !.current_iter = @ + 1]
               IN IF c2.current_iter >= Len(its)
                  THEN LET c3 == [c2 EXCEPT !.current_cycle = @ + 1, !.current_iter = 0]
                       IN IF c3.current_cycle >= c3.number_of_cycles
                          THEN [cfg |-> <<c3>>, status |-> "StopIteration", value |-> None]
                          ELSE [cfg |-> <<[c3 EXCEPT !.activated = TRUE]>>,
                                status |-> "ok", value |-> c3.current_iter]
                  ELSE [cfg |-> <<[c2 EXCEPT !.activated = TRUE]>>,
                        status |-> "ok", value |-> c2.current_iter]
          ELSE [cfg |-> <<[c1 EXCEPT !.activated = TRUE]>>,
                status |-> "ok", value |-> c1.current_iter]

initialize_runAtFirstRun(g, fin, out, number_of_cycles) ==
  LET r == IF fin
           THEN [status |-> "ok", value |-> None, output_area |-> out, finalized |-> TRUE]
           ELSE finalize_sequence(g, out)
  IN [status |-> r.status, value |-> r.value, output_area |-> r.output_area,
      finalized |-> (fin \/ r.finalized),
      configuration |-> IF r.status = "ok"
                        THEN <<IterationConfiguration(0, 0, 0, number_of_cycles)>>
                        ELSE <<>>]

\* LearningSequence.initialize_run: finalizes the sequence if it is not
\* finalized yet, then resets the cursor.
initialize_run(g, fin, out, number_of_cycles) ==
  LET r == IF fin
           THEN [status |-> "ok", value |-> None, output_area |-> out, finalized |-> TRUE]
           ELSE finalize_sequence(g, out)
  IN [status |-> r.status, value |-> r.value, output_area |-> r.output_area,
      finalized |-> (fin \/ r.finalized),
      configuration |-> IF r.status = "ok"
                        THEN <<IterationConfiguration(0, 0, -1, number_of_cycles)>>
                        ELSE <<>>]

(***************************************************************************)
(* LearningModel (learning/learning_model.py and learning/model.py): the   *)
(* parts that compute without changing state.                              *)
(***************************************************************************)
\* BrainMode (learning_stages.py).  model.py names the same three modes
\* DEFAULT, FORCE_DESIRED_OUTPUT and PLASTICITY_OFF; they are written
\* DEFAULT, TRAINING and TESTING here for both classes.
BrainModes == {"DEFAULT", "TRAINING", "TESTING"}

\* LearningModel._stimuli: list(brain.stimuli.keys()), in insertion order
BrainStimuliList == <<"A", "B">>

\* 'Output_{}'.format(id(self)), the name of the model's own output area
ModelOutputAreaName == "Output_1"

\* the least k with 2^k >= x, for x >= 1
RECURSIVE CeilLog2(_)
CeilLog2(x) == IF x <= 1 THEN 0 ELSE 1 + CeilLog2((x + 1) \div 2)

\* math.ceil(math.log(x, 2)) of Python, for 1 <= x < 2^31.  math.log(x, 2)
\* is log(x) / log(2) in double precision: it is 29.000000000000004 for
\* x = 2^29, whose ceiling is 30, and for every other x below 2^31 the
\* ceiling of the quotient is the exact one.
math_ceil_log2(x) == IF x = 2^29 THEN 30 ELSE CeilLog2(x)

\* LearningModel._validate_input_number
_validate_input_number(input_number, d) ==
  LET input_domain == math_ceil_log2(input_number + 1)
  IN IF input_domain > d THEN "DomainSizeMismatch" ELSE "ok"

\* bin(n)[2:], most significant bit first
RECURSIVE bin(_)
bin(n) == IF n < 2 THEN <<n>> ELSE Append(bin(n \div 2), n % 2)

\* str.zfill
zfill(s, width) ==
  IF Len(s) >= width THEN s
  ELSE [i \in 1..width |-> IF i <= width - Len(s) THEN 0 ELSE s[i - (width - Len(s))]]

\* LearningModel._convert_input_to_stimuli of a model whose constructor
\* stored the list _stimuli, on a brain that has stimuli_count stimuli now:
\* the stimulus at (0-based) index i is active when i % 2 is character
\* i // 2 of the binary string, which has no such character for an index
\* from 2 * len(binary_string) on
convert_input_to_stimuli(_stimuli, stimuli_count, input_number, d) ==
  IF stimuli_count # d * 2
  THEN [status |-> "StimuliMismatch", value |-> <<>>]
  ELSE IF _validate_input_number(input_number, d) # "ok"
  THEN [status |-> "DomainSizeMismatch", value |-> <<>>]
  ELSE LET binary_string == zfill(bin(input_number), d)
           index == [i \in 1..Len(_stimuli) |-> i - 1]
           chosen == SelectSeq(index, LAMBDA i : i % 2 = binary_string[(i \div 2) + 1])
       IN IF Len(_stimuli) > 2 * Len(binary_string)
          THEN [status |-> "IndexError", value |-> <<>>]
          ELSE [status |-> "ok",
                value |-> [k \in 1..Len(chosen) |-> _stimuli[chosen[k] + 1]]]

\* The conversion of the model on the brain of stimuli A and B
_convert_input_to_stimuli(input_number, d) ==
  convert_input_to_stimuli(BrainStimuliList, Len(BrainStimuliList), input_number, d)

\* _get_brain_mode of a variant that freezes nothing: every projection into
\* a plain area runs under DEFAULT
_get_brain_modeDefaultForAreas(requested_brain_mode, target_is_output) ==
  IF ~target_is_output THEN "DEFAULT" ELSE requested_brain_mode

\* LearningModel._get_brain_mode (learning_model.py)
_get_brain_mode(requested_brain_mode, target_is_output) ==
  IF requested_brain_mode = "TRAINING" /\ ~target_is_output
  THEN "DEFAULT"
  ELSE requested_brain_mode

\* isinstance(target, OutputArea), for a target named in the sequence
IsOutputArea(name) == _verify_and_get_area(name) = "output"

\* An element of the sequence learning_model.py iterates over is a pair
\* (source, target) of brain objects: the single connection that the
\* iteration declares, with the kind of its source.
LegacyPair(it) ==
  IF Len(it.stimuli_to_areas) > 0
  THEN [source_is_stimulus |-> TRUE, source |-> it.stimuli_to_areas[1][1],
        target |-> it.stimuli_to_areas[1][2]]
  ELSE [source_is_stimulus |-> FALSE, source |-> it.areas_to_areas[1][1],
        target |-> it.areas_to_areas[1][2]]

\* LearningModel._get_projection_parameters (learning_model.py)
_get_projection_parameters(source_is_stimulus, source, target) ==
  IF source_is_stimulus
  THEN [stim_to_area |-> << <<source, target>> >>, area_to_area |-> <<>>]
  ELSE [stim_to_area |-> <<>>, area_to_area |-> << <<source, target>> >>]

\* format without its filter
formatUnfiltered(it, active_stimuli) ==
  [stim_to_area |-> it.stimuli_to_areas, area_to_area |-> it.areas_to_areas]

\* LearningSequence.Iteration.format (learning_sequence.py): the iteration
\* without the stimuli that are not active.  A dictionary of lists is the
\* sequence of its (key, destination) pairs, key by key in insertion order.
format(it, active_stimuli) ==
  [stim_to_area |-> SelectSeq(it.stimuli_to_areas,
                              LAMBDA p : \E k \in 1..Len(active_stimuli) : active_stimuli[k] = p[1]),
   area_to_area |-> it.areas_to_areas]

\* The names a projection projects into.
Targets(projection) ==
  {projection.stim_to_area[k][2] : k \in 1..Len(projection.stim_to_area)}
    \cup {projection.area_to_area[k][2] : k \in 1..Len(projection.area_to_area)}

\* id(self) of the model and of a second model: CPython gives the objects
\* alive at the same time different ids
MainId == 1
ObjectIds == {1, 2}

\* 'Output_{}'.format(id(self))
OutputAreaName(id) == "Output_" \o ToString(id)

\* An output_area property that registers an area at every access
output_area_ofAlwaysNew(name, inact, areas, own) ==
  IF inact
  THEN [status |-> "ModelInactivated", areas |-> areas, own |-> own, created |-> FALSE]
  ELSE [status |-> "ok",
        areas |-> [a \in DOMAIN areas \cup {name} |-> IF a = name THEN <<>> ELSE areas[a]],
        own |-> name, created |-> TRUE]

\* The output_area property of learning_model.py, for the model whose area
\* is called name: the area is created on first use, replacing any area of
\* that name that the brain still holds.
output_area_of(name, inact, areas, own) ==
  IF inact
  THEN [status |-> "ModelInactivated", areas |-> areas, own |-> own, created |-> FALSE]
  ELSE IF own # None
  THEN [status |-> "ok", areas |-> areas, own |-> own, created |-> FALSE]
  ELSE [status |-> "ok",
        areas |-> [a \in DOMAIN areas \cup {name} |-> IF a = name THEN <<>> ELSE areas[a]],
        own |-> name, created |-> TRUE]

\* The property on the model itself.
output_area_property(inact, areas, own) ==
  output_area_of(ModelOutputAreaName, inact, areas, own)

\* The output_area property of model.py: the area the sequence is bound to
sequence_output_area(areas, out) ==
  [status |-> "ok", areas |-> areas, own |-> out, created |-> FALSE]

SetDesiredOutputAppending(areas, name, desired_output) ==
  [areas EXCEPT ![name] = Append(@, desired_output)]

\* area.desired_output = [desired_output]
SetDesiredOutput(areas, name, desired_output) ==
  [areas EXCEPT ![name] = <<desired_output>>]

\* brain.remove_output_area(name)
remove_output_area(areas, name) == [a \in DOMAIN areas \ {name} |-> areas[a]]

\* terminate that does not test _inactivated: it removes the output area
\* again, and the brain has none of that name to delete
terminateUnguarded(inact, areas, own) ==
  IF own # None
  THEN [status |-> IF own \in DOMAIN areas THEN "ok" ELSE "KeyError",
        areas |-> remove_output_area(areas, own), inactivated |-> TRUE]
  ELSE [status |-> "ok", areas |-> areas, inactivated |-> TRUE]

\* LearningModel.terminate (learning_model.py): what it raises, the output
\* areas of the brain and _inactivated afterwards
terminate(inact, areas, own) ==
  IF inact
  THEN [status |-> "ok", areas |-> areas, inactivated |-> inact]
  ELSE [status |-> "ok",
        areas |-> IF own # None THEN remove_output_area(areas, own) ELSE areas,
        inactivated |-> TRUE]

\* Entry checks that do not compare the domain sizes
set_checksIgnoringDomainSize(inact, set_domain_size, d) ==
  IF inact THEN "ModelInactivated" ELSE "ok"

\* The entry checks of train_model and test_model
set_checks(inact, set_domain_size, d) ==
  IF inact THEN "ModelInactivated"
  ELSE IF set_domain_size # d THEN "DomainSizeMismatch"
  ELSE "ok"

\* run_model that does not test _inactivated
run_model_checksIgnoringInactivated(inact, input_number, d) ==
  _validate_input_number(input_number, d)

\* The entry checks of run_model
run_model_checks(inact, input_number, d) ==
  IF inact THEN "ModelInactivated" ELSE _validate_input_number(input_number, d)

\* round(len(true_positive) / (len(true_positive) + len(false_negative)), 2),
\* in hundredths, for non-empty lists.  The quotient lies half way between
\* two hundredths only when the number of points is a multiple of 8;
\* below 8 points every way of rounding gives the nearest hundredth.
accuracyRoundedDown(true_positive, false_negative) ==
  (100 * Len(true_positive)) \div (Len(true_positive) + Len(false_negative))

accuracy(true_positive, false_negative) ==
  LET total == Len(true_positive) + Len(false_negative)
  IN (200 * Len(true_positive) + total) \div (2 * total)

\* No model operation in progress.
NoProjection == [stim_to_area |-> <<>>, area_to_area |-> <<>>]

IdleCall ==
  [op |-> "none", pc |-> "idle", points |-> <<>>, input_number |-> 0, requested |-> None,
   desired_output |-> <<>>, number_of_cycles |-> 0, active_stimuli |-> <<>>,
   original_mode |-> None, projection |-> NoProjection,
   true_positive |-> <<>>, false_negative |-> <<>>, expected |-> 0]

\* What is remembered of a model operation: the mode of the brain and the
\* desired outputs when it was called, the input number it was called with
\* (run_model; None otherwise), the domain_size of the data set it was
\* called with (<<d>> for train_model and test_model; <<>> otherwise), how many data
\* points of the set given to test_model, the number of
\* points it has drawn from the set, the runs test_model has made (the
\* input and the expected output of the point, and what run_model
\* returned), the winners of the output area as run_model read them last
\* (<<>> before it has, else <<winners>>), and whether it has called the
\* sequence or the brain since.
TraceAt(mode, areas, input_number) ==
  [entry_mode |-> mode, desired_before |-> areas, input_number |-> input_number,
   set_domain_size |-> <<>>, points |-> <<>>, drawn |-> 0, runs |-> <<>>,
   winners |-> <<>>, scheduler_called |-> FALSE, substrate_called |-> FALSE]

Outcome(op, status, value) == [op |-> op, status |-> status, value |-> value]

\* The history of a run: the indices __next__ returned since the last
\* successful initialize_run (live once there was one; yielded), how many
\* times it raised
\* StopIteration (stops) or IndexError (errors), how many iterations it
\* returned after the first StopIteration (late), and the number of
\* iterations declared when the run was initialized (declared), and where
\* the run was that a direct call of initialize_run replaced (replaced:
\* "none", "midway" after some elements, "drained" after StopIteration).
NoRun ==
  [live |-> FALSE, yielded |-> <<>>, stops |-> 0, errors |-> 0, late |-> 0, declared |-> 0,
   replaced |-> "none"]

\* The history after one more __next__ that gave r.
RunAfter(r) ==
  CASE r.status = "ok" ->
         [run EXCEPT !.yielded = Append(@, r.value),
                     !.late = IF run.stops > 0 THEN @ + 1 ELSE @]
    [] r.status = "StopIteration" -> [run EXCEPT !.stops = @ + 1]
    [] r.status = "IndexError" -> [run EXCEPT !.errors = @ + 1]
    [] OTHER -> run

\* The union graph of the first n of the iterations its.
RECURSIVE DeclaredGraph(_, _)
DeclaredGraph(its, n) ==
  IF n = 0 THEN EmptyGraph
  ELSE AddAll(DeclaredGraph(its, n - 1), its[n], its[n].consecutive_runs).graph

\* LearningSequence.__init__ on a brain, with the iterations its declared
InitSequence(its) ==
  /\ iterations = its
  /\ graph = DeclaredGraph(its, Len(its))
  /\ finalized = FALSE
  /\ output_area = None
  /\ configuration = <<>>
  /\ last = Outcome("__init__", "ok", None)
  /\ run = NoRun
  /\ failed_adds = 0
  /\ ever_finalized = FALSE

\* LearningModel.__init__ of class i with domain size d, on a brain whose
\* mode is mode
InitModel(i, d, mode) ==
  /\ impl = i
  /\ domain_size = d
  /\ brain_mode = mode
  /\ brain_output_areas = [a \in BrainOutputAreas |-> <<>>]
  /\ inactivated = FALSE
  /\ model_output_area = None
  /\ call = IdleCall
  /\ trace = TraceAt(mode, [a \in BrainOutputAreas |-> <<>>], None)
  /\ ops_started = 0

\* No InputStimuli is being constructed.
NoConstruction ==
  [pc |-> "idle", number |-> 0, area_names |-> <<>>, override |-> <<>>, stimulus_k |-> 0,
   bit |-> 0, input_bits |-> <<>>, generated |-> <<>>]

\* No function has been called.
NoPure == [fn |-> "none", args |-> <<>>, result |-> <<>>]

\* No data set has been constructed.
NoDataSet == [kind |-> "none"]

\* No model is inside _set_training_mode.
NoScoped == <<>>

\* No second model, no InputStimuli, no function call, no data set.
InitOther ==
  /\ peer = <<>>
  /\ brain_stimuli = <<>>
  /\ input_bits = <<>>
  /\ construction = NoConstruction
  /\ pure = NoPure
  /\ data_set = NoDataSet
  /\ scoped = NoScoped

\* A new sequence; the model on it is not used.
Init ==
  /\ InitSequence(<<>>)
  /\ InitModel("learning_model", 1, "DEFAULT")
  /\ InitOther

\* LearningSequence.add_iteration, with a declaration drawn from D and
\* consecutive_runs drawn from R
AddIteration(D, R) ==
  \E decl \in D, consecutive_runs \in R :
    /\ Len(iterations) < MaxIterations
    /\ IF finalized
       THEN /\ last' = Outcome("add_iteration", "SequenceFinalizationError", None)
            /\ UNCHANGED <<iterations, graph, failed_adds>>
       ELSE LET st == AddAll(graph, decl, consecutive_runs)
            IN IF st.error # <<>>
               THEN /\ failed_adds < MaxFailedAdds
                    /\ failed_adds' = failed_adds + 1
                    /\ graph' = st.graph
                    /\ last' = Outcome("add_iteration", st.error[1], st.error[2])
                    /\ UNCHANGED iterations
               ELSE /\ graph' = st.graph
                    /\ iterations' = Append(iterations, Iteration(decl, consecutive_runs))
                    /\ last' = Outcome("add_iteration", "ok", None)
                    /\ UNCHANGED failed_adds
    /\ UNCHANGED <<finalized, output_area, configuration, run, ever_finalized>>
    /\ UNCHANGED <<modelVars, otherVars>>

\* LearningSequence.finalize_sequence, called directly
FinalizeSequence ==
  LET r == finalize_sequence(graph, output_area)
  IN /\ output_area' = r.output_area
     /\ finalized' = (finalized \/ r.finalized)
     /\ last' = Outcome("finalize_sequence", r.status, r.value)
     /\ ever_finalized' = (ever_finalized \/ r.status = "ok")
     /\ UNCHANGED <<iterations, graph, configuration, run, failed_adds>>
     /\ UNCHANGED <<modelVars, otherVars>>

\* LearningSequence.initialize_run, with number_of_cycles drawn from C
InitializeRun(C) ==
  \E number_of_cycles \in C :
    LET r == initialize_run(graph, finalized, output_area, number_of_cycles)
    IN /\ output_area' = r.output_area
       /\ finalized' = r.finalized
       /\ IF r.status # "ok"
          THEN /\ last' = Outcome("initialize_run", r.status, r.value)
               /\ UNCHANGED <<configuration, run>>
          ELSE /\ configuration' = r.configuration
               /\ run' = [NoRun EXCEPT
                            !.live = TRUE, !.declared = Len(iterations),
                            !.replaced = IF run.stops > 0 THEN "drained"
                                         ELSE IF run.yielded # <<>> THEN "midway"
                                         ELSE "none"]
               /\ last' = Outcome("initialize_run", "ok", number_of_cycles)
       /\ ever_finalized' = (ever_finalized \/ (~finalized /\ r.status = "ok"))
       /\ UNCHANGED <<iterations, graph, failed_adds>>
       /\ UNCHANGED <<modelVars, otherVars>>

\* iter(sequence): the start of a for loop over the sequence
Iter ==
  /\ last' = Outcome("__iter__", __iter__(configuration), None)
  /\ UNCHANGED <<seqVars, modelVars, otherVars>>

\* next(sequence).  A run is followed up to its first StopIteration and one
\* call beyond it; a call on a sequence never initialized changes nothing.
Advance ==
  LET r == __next__(configuration, iterations)
  IN /\ run.stops <= 1 /\ run.late = 0 /\ run.errors = 0
     /\ configuration' = r.cfg
     /\ last' = Outcome("__next__", r.status, r.value)
     /\ run' = RunAfter(r)
     /\ UNCHANGED <<iterations, graph, finalized, output_area, failed_adds, ever_finalized>>
     /\ UNCHANGED <<modelVars, otherVars>>

(***************************************************************************)
(* Spec: the scheduler.  Sequences are declared from RunDeclarations, with *)
(* every consecutive_runs in 0..MaxRuns, then initialized and advanced.    *)
(***************************************************************************)
Next ==
  \/ AddIteration(RunDeclarations, 0..MaxRuns)
  \/ InitializeRun(0..MaxCycles)
  \/ Iter
  \/ Advance

Spec == Init /\ [][Next]_vars

(***************************************************************************)
(* SpecGraph: declaration and validation.  Sequences are declared from     *)
(* Declarations, each to run once, and finalized, directly or through      *)
(* initialize_run.                                                         *)
(***************************************************************************)
NextGraph ==
  \/ AddIteration(Declarations, {1})
  \/ FinalizeSequence
  \/ InitializeRun({1})

SpecGraph == Init /\ [][NextGraph]_vars

(***************************************************************************)
(* SpecWeights: declarations that name the same connections again, alone,  *)
(* with others, twice in one mapping, and before an area that is missing,  *)
(* with consecutive_runs from 1 to MaxRuns.                                *)
(***************************************************************************)
WeightDeclarations ==
  { Decl(<< <<"A", "A">> >>, <<>>, <<>>),
    Decl(<< <<"A", "A">>, <<"A", "output">> >>, <<>>, <<>>),
    Decl(<< <<"A", "A">>, <<"A", "A">> >>, <<>>, <<>>),
    Decl(<<>>, << <<"0", "A">> >>, << <<"A", "output">> >>),
    Decl(<<>>, <<>>, << <<"A", "output">> >>),
    Decl(<< <<"A", "A">>, <<"A", "Z">> >>, <<>>, <<>>) }

NextWeights == AddIteration(WeightDeclarations, 1..MaxRuns)

SpecWeights == Init /\ [][NextWeights]_vars

(***************************************************************************)
(* LearningModel: train_model, test_model, run_model, the output_area      *)
(* property and terminate.  A model operation is followed call by call:    *)
(* call.pc is "point" between data points, "begin" at the head of          *)
(* _run_learning_projection, "loop" at the head of its for loop, "project" *)
(* while brain.project executes and "after" when the loop has ended.       *)
(* brain.project is the brain's: it returns or it raises.                  *)
(***************************************************************************)
\* the longest data set handed to train_model and test_model
MaxPoints == 1
\* LearningConfigurations.NUMBER_OF_TRAINING_CYCLES as the exploration sets
\* it (the tests patch it too)
TrainingCycles == 2
\* how many model operations get past their entry checks in one behaviour
MaxOps == 2

Impls == {"learning_model", "model"}
DomainSizes == {1, 29}
RunInputs == {0, 1, 2, 2^29 - 1, 2^29}
PointInputs == {1, 2}
\* output_area.winners as the brain leaves it after a run
WinnerLists == {<<>>, <<0>>, <<1>>, <<1, 0>>}

\* A data set: its domain_size and its data points in iteration order.
DataSets ==
  [domain_size : DomainSizes,
   points : UNION {[1..k -> [input : PointInputs, output : {0, 1}]] : k \in 0..MaxPoints}]

\* The sequences the models run on: stimuli A and B carry the two values of
\* the one input bit and project into area A, which projects into the
\* output.  learning_model.py's sequence declares one connection per
\* iteration, model.py's one mapping per iteration.
LegacyFixture ==
  << Iteration(Decl(<< <<"A", "A">> >>, <<>>, <<>>), 1),
     Iteration(Decl(<< <<"B", "A">> >>, <<>>, <<>>), 1),
     Iteration(Decl(<<>>, <<>>, << <<"A", "output">> >>), 1) >>

ModelFixture ==
  << Iteration(Decl(<< <<"A", "A">>, <<"B", "A">> >>, <<>>, <<>>), 1),
     Iteration(Decl(<<>>, <<>>, << <<"A", "output">> >>), 1) >>

Fixture(i) == IF i = "learning_model" THEN LegacyFixture ELSE ModelFixture

InSeq(x, s) == \E k \in 1..Len(s) : s[k] = x

\* The operation op ends: it returns value (status "ok") or raises status.
Finish(op, status, value) ==
  /\ call' = IdleCall
  /\ last' = Outcome(op, status, value)

\* self.output_area, as the class in use defines it
output_area_of_model ==
  IF impl = "learning_model"
  THEN output_area_property(inactivated, brain_output_areas, model_output_area)
  ELSE sequence_output_area(brain_output_areas, output_area)

InitModels ==
  \E i \in Impls, d \in DomainSizes, mode \in BrainModes :
    /\ InitSequence(Fixture(i))
    /\ InitModel(i, d, mode)
    /\ InitOther

\* LearningModel.train_model, up to its for loop
TrainModel ==
  \E training_set \in DataSets :
    LET s == set_checks(inactivated, training_set.domain_size, domain_size)
    IN /\ call.pc = "idle"
       /\ trace' = [TraceAt(brain_mode, brain_output_areas, None) EXCEPT
                      !.set_domain_size = <<training_set.domain_size>>]
       /\ IF s # "ok"
          THEN /\ Finish("train_model", s, None)
               /\ UNCHANGED ops_started
          ELSE /\ ops_started < MaxOps
               /\ ops_started' = ops_started + 1
               /\ call' = [IdleCall EXCEPT !.op = "train_model", !.pc = "point",
                                           !.points = training_set.points,
                                           !.requested = "TRAINING",
                                           !.number_of_cycles = TrainingCycles]
               /\ UNCHANGED last
       /\ UNCHANGED <<seqVars, otherVars, impl, domain_size, brain_mode, brain_output_areas,
                       inactivated, model_output_area>>

\* LearningModel.test_model, up to its for loop, with a test set drawn from
\* S, as one of at most limit operations
TestModelOn(S, limit) ==
  \E test_set \in S :
    LET s == set_checks(inactivated, test_set.domain_size, domain_size)
    IN /\ call.pc = "idle"
       /\ trace' = [TraceAt(brain_mode, brain_output_areas, None) EXCEPT
                      !.set_domain_size = <<test_set.domain_size>>,
                      !.points = test_set.points]
       /\ IF s # "ok"
          THEN /\ Finish("test_model", s, None)
               /\ UNCHANGED ops_started
          ELSE /\ ops_started < limit
               /\ ops_started' = ops_started + 1
               /\ call' = [IdleCall EXCEPT !.op = "test_model", !.pc = "point",
                                           !.points = test_set.points,
                                           !.requested = "TESTING",
                                           !.number_of_cycles = 1]
               /\ UNCHANGED last
       /\ UNCHANGED <<seqVars, otherVars, impl, domain_size, brain_mode, brain_output_areas,
                       inactivated, model_output_area>>

TestModel == TestModelOn(DataSets, MaxOps)

\* LearningModel.run_model, up to its call of _run_learning_projection
RunModel ==
  \E input_number \in RunInputs :
    LET s == run_model_checks(inactivated, input_number, domain_size)
    IN /\ call.pc = "idle"
       /\ trace' = TraceAt(brain_mode, brain_output_areas, input_number)
       /\ IF s # "ok"
          THEN /\ Finish("run_model", s, None)
               /\ UNCHANGED ops_started
          ELSE /\ ops_started < MaxOps
               /\ ops_started' = ops_started + 1
               /\ call' = [IdleCall EXCEPT !.op = "run_model", !.pc = "begin",
                                           !.input_number = input_number,
                                           !.requested = "TESTING",
                                           !.number_of_cycles = 1]
               /\ UNCHANGED last
       /\ UNCHANGED <<seqVars, otherVars, impl, domain_size, brain_mode, brain_output_areas,
                       inactivated, model_output_area>>

\* The for loops of train_model and test_model: the next data point, or the
\* end of the operation.  test_model calls run_model on the point.
NextPoint ==
  /\ call.pc = "point"
  /\ IF call.points = <<>>
     THEN IF call.op = "train_model"
          THEN Finish(call.op, "ok", None)
          ELSE IF Len(call.true_positive) + Len(call.false_negative) = 0
          THEN Finish(call.op, "ZeroDivisionError", None)
          ELSE Finish(call.op, "ok",
                      [accuracy |-> accuracy(call.true_positive, call.false_negative),
                       true_positive |-> call.true_positive,
                       false_negative |-> call.false_negative])
     ELSE LET data_point == Head(call.points)
              next == [call EXCEPT !.points = Tail(@), !.pc = "begin",
                                   !.input_number = data_point.input]
          IN IF call.op = "train_model"
             THEN /\ call' = [next EXCEPT !.desired_output = <<data_point.output>>]
                  /\ UNCHANGED last
             ELSE LET s == run_model_checks(inactivated, data_point.input, domain_size)
                  IN IF s # "ok"
                     THEN Finish(call.op, s, None)
                     ELSE /\ call' = [next EXCEPT !.expected = data_point.output]
                          /\ UNCHANGED last
  /\ trace' = IF call.points = <<>> THEN trace ELSE [trace EXCEPT !.drawn = @ + 1]
  /\ UNCHANGED <<seqVars, otherVars, impl, domain_size, brain_mode, brain_output_areas, inactivated,
                  model_output_area, ops_started>>

\* _run_learning_projection up to the head of its for loop: the input is
\* converted, the run initialized, the desired output set (when training in
\* learning_model.py, when one is given in model.py), and in model.py the
\* brain is switched to the requested mode for the whole loop.
BeginProjection ==
  LET conv == _convert_input_to_stimuli(call.input_number, domain_size)
      init == initialize_run(graph, finalized, output_area, call.number_of_cycles)
      sets == IF impl = "learning_model"
              THEN call.requested = "TRAINING"
              ELSE call.desired_output # <<>>
      own == IF impl = "learning_model"
             THEN output_area_property(inactivated, brain_output_areas, model_output_area)
             ELSE sequence_output_area(brain_output_areas, init.output_area)
      iter == __iter__(init.configuration)
  IN /\ call.pc = "begin"
     /\ IF conv.status # "ok"
        THEN /\ Finish(call.op, conv.status, None)
             /\ UNCHANGED <<seqVars, brain_mode, brain_output_areas, model_output_area, trace>>
        ELSE /\ output_area' = init.output_area
             /\ finalized' = init.finalized
             /\ ever_finalized' = (ever_finalized \/ (~finalized /\ init.status = "ok"))
             /\ UNCHANGED <<iterations, graph, failed_adds>>
             /\ IF init.status # "ok"
                THEN /\ Finish(call.op, init.status, init.value)
                     /\ trace' = [trace EXCEPT !.scheduler_called = TRUE]
                     /\ UNCHANGED <<configuration, run, brain_mode, brain_output_areas,
                                     model_output_area>>
                ELSE /\ configuration' = init.configuration
                     /\ run' = [NoRun EXCEPT !.live = TRUE, !.declared = Len(iterations)]
                     /\ IF sets /\ own.status # "ok"
                        THEN /\ Finish(call.op, own.status, None)
                             /\ trace' = [trace EXCEPT !.scheduler_called = TRUE]
                             /\ UNCHANGED <<brain_mode, brain_output_areas, model_output_area>>
                        ELSE /\ trace' = [trace EXCEPT !.scheduler_called = TRUE,
                                                       !.substrate_called = @ \/ sets]
                             /\ brain_output_areas' =
                                  IF sets
                                  THEN SetDesiredOutput(own.areas, own.own, call.desired_output[1])
                                  ELSE brain_output_areas
                             /\ model_output_area' =
                                  IF sets /\ impl = "learning_model" THEN own.own
                                  ELSE model_output_area
                             /\ IF iter # "ok"
                                THEN /\ Finish(call.op, iter, None)
                                     /\ UNCHANGED brain_mode
                                ELSE /\ call' = [call EXCEPT !.pc = "loop",
                                                             !.active_stimuli = conv.value,
                                                             !.original_mode =
                                                                IF impl = "model" THEN brain_mode
                                                                ELSE @]
                                     /\ brain_mode' = IF impl = "model" THEN call.requested
                                                      ELSE brain_mode
                                     /\ UNCHANGED last
     /\ UNCHANGED <<otherVars, impl, domain_size, inactivated, ops_started>>

\* One turn of the for loop over the sequence, up to the call of
\* brain.project.  learning_model.py skips a stimulus that is not active,
\* resolves the output target to the model's own area and switches the
\* brain to the mode of this projection; model.py projects the formatted
\* iteration, and leaves its mode scope when the loop ends.
Step ==
  LET r == __next__(configuration, iterations)
      it == iterations[r.value + 1]
      pair == LegacyPair(it)
      is_out == IsOutputArea(pair.target)
      own == IF is_out
             THEN output_area_property(inactivated, brain_output_areas, model_output_area)
             ELSE [status |-> "ok", areas |-> brain_output_areas,
                   own |-> model_output_area, created |-> FALSE]
      target == IF is_out THEN own.own ELSE pair.target
  IN /\ call.pc = "loop"
     /\ configuration' = r.cfg
     /\ run' = RunAfter(r)
     /\ IF r.status = "ok" /\ impl = "learning_model"
        THEN IF pair.source_is_stimulus /\ ~InSeq(pair.source, call.active_stimuli)
             THEN UNCHANGED <<call, last, brain_mode, brain_output_areas,
                              model_output_area, trace>>
             ELSE IF own.status # "ok"
             THEN /\ Finish(call.op, own.status, None)
                  /\ UNCHANGED <<brain_mode, brain_output_areas, model_output_area, trace>>
             ELSE /\ brain_output_areas' = own.areas
                  /\ model_output_area' = own.own
                  /\ brain_mode' = _get_brain_mode(call.requested, is_out)
                  /\ call' = [call EXCEPT !.pc = "project",
                                          !.original_mode = brain_mode,
                                          !.projection =
                                             _get_projection_parameters(
                                               pair.source_is_stimulus, pair.source, target)]
                  /\ trace' = [trace EXCEPT !.substrate_called = TRUE]
                  /\ UNCHANGED last
        ELSE IF r.status = "ok"
        THEN /\ call' = [call EXCEPT !.pc = "project",
                                     !.projection = format(it, call.active_stimuli)]
             /\ trace' = [trace EXCEPT !.substrate_called = TRUE]
             /\ UNCHANGED <<last, brain_mode, brain_output_areas, model_output_area>>
        ELSE IF r.status = "StopIteration"
        THEN /\ call' = [call EXCEPT !.pc = "after"]
             /\ brain_mode' = IF impl = "model" THEN call.original_mode ELSE brain_mode
             /\ UNCHANGED <<last, brain_output_areas, model_output_area, trace>>
        ELSE /\ Finish(call.op, r.status, None)
             /\ UNCHANGED <<brain_mode, brain_output_areas, model_output_area, trace>>
     /\ UNCHANGED <<iterations, graph, finalized, output_area, failed_adds, ever_finalized,
                     otherVars, impl, domain_size, inactivated, ops_started>>

\* brain.project returns.  In learning_model.py this is the end of the
\* scope of _set_training_mode, which puts the mode back.
ProjectReturns ==
  /\ call.pc = "project"
  /\ call' = [call EXCEPT !.pc = "loop", !.projection = NoProjection]
  /\ brain_mode' = IF impl = "learning_model" THEN call.original_mode ELSE brain_mode
  /\ UNCHANGED <<seqVars, last, otherVars, impl, domain_size, brain_output_areas, inactivated,
                  model_output_area, trace, ops_started>>

\* brain.project raises.  _set_training_mode and _set_brain_mode are
\* generators with no try around their yield: the exception leaves through
\* the yield and the assignment after it is not executed.
ProjectRaises ==
  /\ call.pc = "project"
  /\ Finish(call.op, "ProjectError", None)
  /\ UNCHANGED <<seqVars, otherVars, impl, domain_size, brain_mode, brain_output_areas, inactivated,
                  model_output_area, trace, ops_started>>

\* After _run_learning_projection: train_model goes on to the next point;
\* run_model returns output_area.winners[0], which test_model compares with
\* the expected output of the point.
AfterProjection ==
  LET own == output_area_of_model
  IN /\ call.pc = "after"
     /\ IF call.op = "train_model"
        THEN /\ call' = [call EXCEPT !.pc = "point"]
             /\ UNCHANGED <<last, brain_output_areas, model_output_area, trace>>
        ELSE IF own.status # "ok"
        THEN /\ Finish(call.op, own.status, None)
             /\ UNCHANGED <<brain_output_areas, model_output_area, trace>>
        ELSE \E winners \in WinnerLists :
               /\ brain_output_areas' = own.areas
               /\ model_output_area' = IF impl = "learning_model" THEN own.own
                                       ELSE model_output_area
               /\ trace' = [trace EXCEPT
                              !.substrate_called = @ \/ own.created,
                              !.winners = <<winners>>,
                              !.runs = IF call.op = "test_model" /\ winners # <<>>
                                       THEN Append(@, [input |-> call.input_number,
                                                       expected |-> call.expected,
                                                       result |-> winners[1]])
                                       ELSE @]
               /\ IF winners = <<>>
                  THEN Finish(call.op, "IndexError", None)
                  ELSE IF call.op = "run_model"
                  THEN Finish(call.op, "ok", winners[1])
                  ELSE /\ call' = IF winners[1] = call.expected
                                  THEN [call EXCEPT !.pc = "point",
                                          !.true_positive = Append(@, call.input_number)]
                                  ELSE [call EXCEPT !.pc = "point",
                                          !.false_negative = Append(@, call.input_number)]
                       /\ UNCHANGED last
     /\ UNCHANGED <<seqVars, otherVars, impl, domain_size, brain_mode, inactivated, ops_started>>

\* Reading model.output_area from outside the model
OutputArea ==
  LET own == output_area_of_model
  IN /\ call.pc = "idle"
     /\ trace' = [TraceAt(brain_mode, brain_output_areas, None) EXCEPT
                    !.substrate_called = own.created]
     /\ brain_output_areas' = own.areas
     /\ model_output_area' = IF impl = "learning_model" THEN own.own ELSE model_output_area
     /\ last' = Outcome("output_area", own.status, own.own)
     /\ UNCHANGED <<seqVars, otherVars, impl, domain_size, brain_mode, inactivated, call, ops_started>>

\* LearningModel.terminate (learning_model.py; model.py has none)
Terminate ==
  /\ call.pc = "idle"
  /\ impl = "learning_model"
  /\ LET r == terminate(inactivated, brain_output_areas, model_output_area)
     IN /\ brain_output_areas' = r.areas
        /\ inactivated' = r.inactivated
        /\ last' = Outcome("terminate", r.status, None)
  /\ trace' = TraceAt(brain_mode, brain_output_areas, None)
  /\ UNCHANGED <<seqVars, otherVars, impl, domain_size, brain_mode, model_output_area, call, ops_started>>

(***************************************************************************)
(* SpecModel: a model of either class, of either domain size, on a brain   *)
(* in any mode, is trained, tested, run, read and terminated.              *)
(***************************************************************************)
NextModel ==
  \/ TrainModel
  \/ TestModel
  \/ RunModel
  \/ NextPoint
  \/ BeginProjection
  \/ Step
  \/ ProjectReturns
  \/ ProjectRaises
  \/ AfterProjection
  \/ OutputArea
  \/ Terminate

SpecModel == InitModels /\ [][NextModel]_vars

(***************************************************************************)
(* SpecTest: one test_model on a model of either class, with a test set of *)
(* the model's domain size and up to MaxTestPoints points.                 *)
(***************************************************************************)
\* the longest test set
MaxTestPoints == 3

TestSets ==
  [domain_size : {1},
   points : UNION {[1..k -> [input : {0, 1}, output : {0, 1}]] : k \in 0..MaxTestPoints}]

InitTest ==
  \E i \in Impls :
    /\ InitSequence(Fixture(i))
    /\ InitModel(i, 1, "DEFAULT")
    /\ InitOther

NextTest ==
  \/ TestModelOn(TestSets, 1)
  \/ NextPoint
  \/ BeginProjection
  \/ Step
  \/ ProjectReturns
  \/ ProjectRaises
  \/ AfterProjection

SpecTest == InitTest /\ [][NextTest]_vars

(***************************************************************************)
(* SpecAreas: the output areas of two models on one brain.  The brain may  *)
(* still hold areas under the names the models will use (with a desired    *)
(* output left in them).  The model reads its output_area and is           *)
(* terminated; a second model is created, reads its output_area, is        *)
(* terminated and deleted (__del__ calls terminate).                       *)
(***************************************************************************)
InitAreas ==
  \E stale \in SUBSET {OutputAreaName(i) : i \in ObjectIds}, mode \in BrainModes :
    /\ InitSequence(LegacyFixture)
    /\ impl = "learning_model"
    /\ domain_size = 1
    /\ brain_mode = mode
    /\ brain_output_areas =
         [a \in BrainOutputAreas \cup stale |-> IF a \in stale THEN <<1>> ELSE <<>>]
    /\ inactivated = FALSE
    /\ model_output_area = None
    /\ call = IdleCall
    /\ trace = TraceAt(mode, brain_output_areas, None)
    /\ ops_started = 0
    /\ InitOther

\* LearningModel(brain, domain_size, sequence) once more, on the same brain
NewPeer ==
  /\ peer = <<>>
  /\ \E i \in ObjectIds \ {MainId} :
       /\ peer' = <<[id |-> i, output_area |-> None, inactivated |-> FALSE]>>
       /\ last' = Outcome("peer.__init__", "ok", i)
  /\ UNCHANGED <<seqVars, modelVars, inputVars, pure, dataVars>>

\* The output_area property of the second model
PeerOutputArea ==
  /\ peer # <<>>
  /\ LET own == output_area_of(OutputAreaName(peer[1].id), peer[1].inactivated,
                               brain_output_areas, peer[1].output_area)
     IN /\ brain_output_areas' = own.areas
        /\ peer' = <<[peer[1] EXCEPT !.output_area = own.own]>>
        /\ last' = Outcome("peer.output_area", own.status, own.own)
  /\ UNCHANGED <<seqVars, impl, domain_size, brain_mode, inactivated, model_output_area,
                  call, trace, ops_started, inputVars, pure, dataVars>>

\* terminate on the second model
PeerTerminate ==
  /\ peer # <<>>
  /\ LET r == terminate(peer[1].inactivated, brain_output_areas, peer[1].output_area)
     IN /\ brain_output_areas' = r.areas
        /\ peer' = <<[peer[1] EXCEPT !.inactivated = r.inactivated]>>
        /\ last' = Outcome("peer.terminate", r.status, None)
  /\ UNCHANGED <<seqVars, impl, domain_size, brain_mode, inactivated, model_output_area,
                  call, trace, ops_started, inputVars, pure, dataVars>>

\* The second model is deleted: __del__ calls terminate, and its id is free
\* again.
PeerDelete ==
  /\ peer # <<>>
  /\ LET r == terminate(peer[1].inactivated, brain_output_areas, peer[1].output_area)
     IN /\ brain_output_areas' = r.areas
        /\ peer' = <<>>
        /\ last' = Outcome("peer.__del__", r.status, None)
  /\ UNCHANGED <<seqVars, impl, domain_size, brain_mode, inactivated, model_output_area,
                  call, trace, ops_started, inputVars, pure, dataVars>>

NextAreas ==
  \/ OutputArea
  \/ Terminate
  \/ NewPeer
  \/ PeerOutputArea
  \/ PeerTerminate
  \/ PeerDelete

SpecAreas == InitAreas /\ [][NextAreas]_vars

(***************************************************************************)
(* Functions on their own: the arguments are drawn at the start and the    *)
(* one step is the call.                                                   *)
(***************************************************************************)
\* The arguments A given to the function fn, which has not been called yet
InitFunction(fn, A) ==
  /\ InitSequence(<<>>)
  /\ InitModel("model", 1, "DEFAULT")
  /\ peer = <<>>
  /\ brain_stimuli = <<>>
  /\ input_bits = <<>>
  /\ construction = NoConstruction
  /\ \E a \in A : pure = [fn |-> fn, args |-> a, result |-> <<>>]
  /\ data_set = NoDataSet
  /\ scoped = NoScoped

Returns(value) ==
  /\ pure.result = <<>>
  /\ pure' = [pure EXCEPT !.result = <<value>>]
  /\ UNCHANGED <<seqVars, last, modelVars, peer, inputVars, dataVars>>

\* The dictionary entry key: destinations as pairs
Entry(key, destinations) ==
  [k \in 1..Len(destinations) |-> <<key, destinations[k]>>]

\* The dictionaries with keys from Keys and values from Lists, of at most
\* two entries
Dictionaries(Keys, Lists) ==
  {<<>>} \cup {Entry(k, l) : k \in Keys, l \in Lists}
    \cup UNION {{Entry(k[1], l[1]) \o Entry(k[2], l[2]) : l \in Lists \X Lists}
                 : k \in {x \in Keys \X Keys : x[1] # x[2]}}

AreaLists == {<<"A">>, <<"B">>, <<"A", "B">>}

\* Iterations of the legacy sequence and lists of active stimuli
LegacyFormatArguments ==
  {Iteration(Decl(s, <<>>, a), 1) :
     s \in Dictionaries({"A", "B"}, AreaLists),
     a \in {<<>>, Entry("A", <<"output">>), Entry("A", <<"B">>) \o Entry("B", <<"output">>)}}
  \X {<<>>, <<"A">>, <<"B">>, <<"A", "B">>, <<"B", "A">>, <<"C">>, <<"A", "A">>}

InitLegacyFormat == InitFunction("format", LegacyFormatArguments)

\* iteration.format(active_stimuli) of learning_sequence.py
LegacyFormat ==
  /\ pure.fn = "format"
  /\ Returns(format(pure.args[1], pure.args[2]))

SpecLegacyFormat == InitLegacyFormat /\ [][LegacyFormat]_vars

\* The stimuli of a brain made for domain size d: A, B, C, D for two bits
StimuliFor(d) ==
  [i \in 1..2 * d |-> IF d <= 2 THEN <<"A", "B", "C", "D">>[i] ELSE "s" \o ToString(i - 1)]

\* The domain sizes of the models whose conversion is called
ConvertDomainSizes == {1, 2, 3, 4, 29}

\* Models (the list fixed at construction and the domain size), the number
\* of stimuli in the brain at the call, and input numbers: all of the
\* domain and the first beyond it, for 29 bits those at its ends
ConvertArguments ==
  UNION {{<<StimuliFor(d), c, n, d>> :
            c \in {2 * d, 2 * d + 1},
            n \in IF d < 29 THEN 0..2^d ELSE {0, 1, 2^28, 2^29 - 2, 2^29 - 1, 2^29}}
         : d \in ConvertDomainSizes}

InitConvert == InitFunction("_convert_input_to_stimuli", ConvertArguments)

\* model._convert_input_to_stimuli(input_number)
Convert ==
  /\ pure.fn = "_convert_input_to_stimuli"
  /\ Returns(convert_input_to_stimuli(pure.args[1], pure.args[2], pure.args[3], pure.args[4]))

SpecConvert == InitConvert /\ [][Convert]_vars

(***************************************************************************)
(* Iteration.format(input_stimuli, input_value), as                        *)
(* sequence_components/iteration.py and as components/sequence.py define   *)
(* it.  A dictionary is the sequence of its <<key, value>> items in        *)
(* insertion order.                                                        *)
(***************************************************************************)
\* The destination names in use, in the order of Python's strings
NameOrder == <<"A", "B", "C", "Output">>

\* list.count
Count(l, x) == Cardinality({i \in 1..Len(l) : l[i] = x})

\* sorted(l) of a list of destination names
RECURSIVE SortedFrom(_, _)
SortedFrom(l, k) ==
  IF k > Len(NameOrder) THEN <<>>
  ELSE [i \in 1..Count(l, NameOrder[k]) |-> NameOrder[k]] \o SortedFrom(l, k + 1)

sorted(l) == SortedFrom(l, 1)

\* Iteration._union: sorted(set(list1).union(list2))
_union(list1, list2) ==
  SelectSeq(NameOrder, LAMBDA x : InSeq(x, list1) \/ InSeq(x, list2))

HasKey(d, key) == \E k \in 1..Len(d) : d[k][1] = key

\* d[key] of a defaultdict(list)
Get(d, key) ==
  IF HasKey(d, key) THEN d[CHOOSE k \in 1..Len(d) : d[k][1] = key][2] ELSE <<>>

\* d[key] = value
Put(d, key, value) ==
  IF HasKey(d, key)
  THEN [k \in 1..Len(d) |-> IF d[k][1] = key THEN <<key, value>> ELSE d[k]]
  ELSE Append(d, <<key, value>>)

\* InputBitStimuli.__init__
InputBitStimuli(stimulus_for_0, stimulus_for_1, target_areas) ==
  [stimulus_for_0 |-> stimulus_for_0, stimulus_for_1 |-> stimulus_for_1,
   target_areas |-> target_areas]

\* InputBitStimuli.__getitem__ for item 0 or 1
__getitem__(input_bit, item) ==
  IF item = 0 THEN input_bit.stimulus_for_0 ELSE input_bit.stimulus_for_1

\* Iteration._to_bits
_to_bits(input_value, size) == zfill(bin(input_value), size)

\* The for loop of format in sequence_components/iteration.py, from the
\* k-th item of input_bits_to_areas on
RECURSIVE Iteration_formatFrom(_, _, _, _, _)
Iteration_formatFrom(items, k, input_value, input_stimuli, stimuli_to_area) ==
  IF k > Len(items) THEN [status |-> "ok", value |-> stimuli_to_area]
  ELSE LET bit_index == items[k][1]
           area_names == items[k][2]
       IN IF bit_index >= Len(input_value) \/ bit_index >= Len(input_stimuli)
          THEN [status |-> "IndexError", value |-> <<>>]
          ELSE LET bit_value == input_value[bit_index + 1]
                   stimulus_name == __getitem__(input_stimuli[bit_index + 1], bit_value)
               IN Iteration_formatFrom(items, k + 1, input_value, input_stimuli,
                    Put(stimuli_to_area, stimulus_name,
                        _union(area_names, Get(stimuli_to_area, stimulus_name))))

\* Iteration.format of sequence_components/iteration.py
Iteration_format(it, input_stimuli, input_value) ==
  LET r == Iteration_formatFrom(it.input_bits_to_areas, 1,
                                _to_bits(input_value, Len(input_stimuli)),
                                input_stimuli, it.stimuli_to_areas)
  IN [status |-> r.status,
      value |-> [stim_to_area |-> r.value, area_to_area |-> it.areas_to_areas]]

\* The for loop of format in components/sequence.py
RECURSIVE LearningSequence_Iteration_formatFrom(_, _, _, _, _)
LearningSequence_Iteration_formatFrom(items, k, input_value, input_stimuli, stimuli_to_area) ==
  IF k > Len(items) THEN [status |-> "ok", value |-> stimuli_to_area]
  ELSE LET bit_index == items[k][1]
           area_names == items[k][2]
       IN IF bit_index >= Len(input_stimuli)
          THEN [status |-> "IndexError", value |-> <<>>]
          ELSE IF sorted(input_stimuli[bit_index + 1].target_areas) # sorted(area_names)
          THEN [status |-> "InputStimuliMisused", value |-> <<>>]
          ELSE LET bit_value == input_value[bit_index + 1]
                   stimulus_name == __getitem__(input_stimuli[bit_index + 1], bit_value)
               IN LearningSequence_Iteration_formatFrom(items, k + 1, input_value, input_stimuli,
                    Put(stimuli_to_area, stimulus_name,
                        Get(stimuli_to_area, stimulus_name) \o area_names))

\* LearningSequence.Iteration.format of components/sequence.py
LearningSequence_Iteration_format(it, input_stimuli, input_value) ==
  LET r == LearningSequence_Iteration_formatFrom(it.input_bits_to_areas, 1,
                                _to_bits(input_value, Len(input_stimuli)),
                                input_stimuli, it.stimuli_to_areas)
  IN [status |-> r.status,
      value |-> [stim_to_area |-> r.value, area_to_area |-> it.areas_to_areas]]

\* InputStimuli objects: one overridden bit into A; two generated bits into
\* A and B; two bits overridden with the same pair of stimuli; one
\* overridden bit into A and B
InputStimuliOfFormat ==
  { << InputBitStimuli("s0", "s1", <<"A">>) >>,
    << InputBitStimuli("__s_A_0", "__s_A_1", <<"A">>),
       InputBitStimuli("__s_B_0", "__s_B_1", <<"B">>) >>,
    << InputBitStimuli("s0", "s1", <<"A">>), InputBitStimuli("s0", "s1", <<"B">>) >>,
    << InputBitStimuli("s0", "s1", <<"A", "B">>) >> }

\* The stimuli these objects and the iterations below name
StimuliOfFormat == {"s0", "s1", "s2", "__s_A_0", "__s_A_1", "__s_B_0", "__s_B_1"}

\* Iterations: no or one explicit stimulus, up to two input bits
IterationsOfFormat ==
  { Iteration(Decl(s, b, a), 1) :
      s \in {<<>>, << <<"s0", <<"A">>>> >>, << <<"s0", <<"B">>>> >>, << <<"s2", <<"A">>>> >>},
      b \in {<<>>} \cup { << <<i, l>> >> : i \in {0, 1}, l \in {<<"A">>, <<"B">>, <<"B", "A">>} }
             \cup { << <<0, l>>, <<1, m>> >> : l \in {<<"A">>, <<"B">>, <<"B", "A">>},
                                              m \in {<<"A">>, <<"B">>} },
      a \in {<<>>, << <<"A", <<"Output">>>> >>} }

\* An iteration, an InputStimuli of n bits and an input value of [0, 2^n)
FormatArguments ==
  UNION {{<<it, input_stimuli, input_value>> :
            it \in IterationsOfFormat, input_value \in 0..2^Len(input_stimuli) - 1}
         : input_stimuli \in InputStimuliOfFormat}

InitFormat ==
  \/ InitFunction("Iteration.format", FormatArguments)
  \/ InitFunction("LearningSequence.Iteration.format", FormatArguments)

\* iteration.format(input_stimuli, input_value), sequence_components/iteration.py
IterationFormat ==
  /\ pure.fn = "Iteration.format"
  /\ Returns(Iteration_format(pure.args[1], pure.args[2], pure.args[3]))

\* iteration.format(input_stimuli, input_value), components/sequence.py
SequenceIterationFormat ==
  /\ pure.fn = "LearningSequence.Iteration.format"
  /\ Returns(LearningSequence_Iteration_format(pure.args[1], pure.args[2], pure.args[3]))

NextFormat == IterationFormat \/ SequenceIterationFormat

SpecFormat == InitFormat /\ [][NextFormat]_vars

(***************************************************************************)
(* InputStimuli (components/input.py).  An area specification is           *)
(* [type, names]: a str (one name), a list of str, or something else; an   *)
(* override value is [type, names]: a tuple of names or something else.    *)
(* The constructor is followed position by position: construction.bit is   *)
(* the position _generate_input_bits is at, construction.input_bits its    *)
(* local list and construction.generated whether it synthesized the        *)
(* stimuli of each position; after the call the record keeps the           *)
(* arguments and where the call ended.                                     *)
(***************************************************************************)
MAX_ATTEMPTS == 100

\* The constructor calls on one brain
MaxConstructions == 2

\* '_'.join(names)
RECURSIVE Join(_)
Join(names) ==
  IF Len(names) = 1 THEN names[1] ELSE names[1] \o "_" \o Join(Tail(names))

\* The characters of an area name.  Every area of the model but "out" has
\* a name of one character.
Characters(name) ==
  IF name = "out" THEN <<"o", "u", "t">> ELSE <<name>>

\* list(area_names_item): of a list, its items in order; of a str, its
\* characters
ListOf(area_names_item) ==
  IF area_names_item.type = "str"
  THEN Characters(area_names_item.names[1])
  ELSE area_names_item.names

\* InputStimuli._format_stimulus_name
_format_stimulus_name(area_name, input_bit_value, attempt_counter) ==
  LET postfix == IF attempt_counter = 1 THEN ""
                 ELSE "_(" \o ToString(attempt_counter) \o ")"
  IN "__s_" \o area_name \o "_" \o ToString(input_bit_value) \o postfix

\* The while loop of _get_available_stimulus_name, from attempt_counter on
RECURSIVE _get_available_stimulus_nameFrom(_, _, _, _)
_get_available_stimulus_nameFrom(stimuli, area_name, input_bit_value, attempt_counter) ==
  LET stimulus_name == _format_stimulus_name(area_name, input_bit_value, attempt_counter)
  IN IF ~HasKey(stimuli, stimulus_name) THEN [status |-> "ok", value |-> stimulus_name]
     ELSE IF attempt_counter = MAX_ATTEMPTS
     THEN [status |-> "MaxAttemptsToGenerateStimuliReached", value |-> None]
     ELSE _get_available_stimulus_nameFrom(stimuli, area_name, input_bit_value,
                                           attempt_counter + 1)

\* _get_available_stimulus_name without the test of attempt_counter
_get_available_stimulus_nameUnbounded(stimuli, area_names_item, input_bit_value) ==
  LET area_name == IF area_names_item.type = "list" THEN Join(area_names_item.names)
                   ELSE area_names_item.names[1]
      free(a) == ~HasKey(stimuli, _format_stimulus_name(area_name, input_bit_value, a))
      first == CHOOSE a \in 1..MAX_ATTEMPTS + 1 : free(a) /\ \A b \in 1..a - 1 : ~free(b)
  IN [status |-> "ok", value |-> _format_stimulus_name(area_name, input_bit_value, first)]

\* _get_available_stimulus_name without its while loop
_get_available_stimulus_nameFirstAttempt(stimuli, area_names_item, input_bit_value) ==
  [status |-> "ok",
   value |-> _format_stimulus_name(IF area_names_item.type = "list"
                                   THEN Join(area_names_item.names)
                                   ELSE area_names_item.names[1], input_bit_value, 1)]

\* InputStimuli._get_available_stimulus_name
_get_available_stimulus_name(stimuli, area_names_item, input_bit_value) ==
  LET area_name == IF area_names_item.type = "list" THEN Join(area_names_item.names)
                   ELSE area_names_item.names[1]
  IN _get_available_stimulus_nameFrom(stimuli, area_name, input_bit_value, 1)

\* The first name of names that is not in areas, if there is one
FirstMissing(names, areas) ==
  IF \E i \in 1..Len(names) : names[i] \notin areas
  THEN <<names[CHOOSE i \in 1..Len(names) :
                 /\ names[i] \notin areas
                 /\ \A j \in 1..i - 1 : names[j] \in areas]>>
  ELSE <<>>

\* _validate_area_names_item without its test of the list's names
_validate_area_names_itemOfStrOnly(areas, area_names_item) ==
  IF area_names_item.type = "str" /\ FirstMissing(area_names_item.names, areas) # <<>>
  THEN [status |-> "MissingArea", value |-> FirstMissing(area_names_item.names, areas)[1]]
  ELSE IF area_names_item.type \in {"str", "list"} THEN [status |-> "ok", value |-> None]
  ELSE [status |-> "TypeError", value |-> None]

\* InputStimuli._validate_area_names_item
_validate_area_names_item(areas, area_names_item) ==
  IF area_names_item.type \in {"str", "list"}
  THEN IF FirstMissing(area_names_item.names, areas) # <<>>
       THEN [status |-> "MissingArea", value |-> FirstMissing(area_names_item.names, areas)[1]]
       ELSE [status |-> "ok", value |-> None]
  ELSE [status |-> "TypeError", value |-> None]

\* _validate_override_input_bit without its for loop
_validate_override_input_bitOfShapeOnly(stimuli, override_input_bit) ==
  IF override_input_bit.type # "tuple" THEN [status |-> "TypeError", value |-> None]
  ELSE IF Len(override_input_bit.names) # 2 THEN [status |-> "ValueError", value |-> None]
  ELSE [status |-> "ok", value |-> None]

\* InputStimuli._validate_override_input_bit
_validate_override_input_bit(stimuli, override_input_bit) ==
  IF override_input_bit.type # "tuple" THEN [status |-> "TypeError", value |-> None]
  ELSE IF Len(override_input_bit.names) # 2 THEN [status |-> "ValueError", value |-> None]
  ELSE IF ~HasKey(stimuli, override_input_bit.names[1])
  THEN [status |-> "MissingStimulus", value |-> override_input_bit.names[1]]
  ELSE IF ~HasKey(stimuli, override_input_bit.names[2])
  THEN [status |-> "MissingStimulus", value |-> override_input_bit.names[2]]
  ELSE [status |-> "ok", value |-> None]

\* brain.add_stimulus(name, k)
add_stimulus(stimuli, name, k) == Put(stimuli, name, k)

_generate_input_bitRollingBack(areas, stimuli, stimulus_k, area_names_item, override, bit) ==
  LET valid == _validate_area_names_item(areas, area_names_item)
      failed(r) == [status |-> r.status, value |-> r.value,
                    stimuli |-> SelectSeq(stimuli, LAMBDA item : item[2] # stimulus_k),
                    input_bit |-> <<>>, generated |-> FALSE]
  IN IF valid.status # "ok" THEN failed(valid)
     ELSE IF HasKey(override, bit)
     THEN LET ov == _validate_override_input_bit(stimuli, Get(override, bit))
          IN IF ov.status # "ok" THEN failed(ov)
             ELSE [status |-> "ok", value |-> None, stimuli |-> stimuli,
                   input_bit |-> <<InputBitStimuli(Get(override, bit).names[1],
                                                   Get(override, bit).names[2],
                                                   ListOf(area_names_item))>>,
                   generated |-> FALSE]
     ELSE LET stimulus_0 == _get_available_stimulus_name(stimuli, area_names_item, 0)
              stimulus_1 == _get_available_stimulus_name(stimuli, area_names_item, 1)
          IN IF stimulus_0.status # "ok" THEN failed(stimulus_0)
             ELSE IF stimulus_1.status # "ok" THEN failed(stimulus_1)
             ELSE [status |-> "ok", value |-> None,
                   stimuli |-> add_stimulus(add_stimulus(stimuli, stimulus_0.value, stimulus_k),
                                            stimulus_1.value, stimulus_k),
                   input_bit |-> <<InputBitStimuli(stimulus_0.value, stimulus_1.value,
                                                   ListOf(area_names_item))>>,
                   generated |-> TRUE]

\* One pass of the for loop of _generate_input_bits: the position bit
\* (0-based) with its area specification on the brain with these areas and
\* stimuli.
_generate_input_bit(areas, stimuli, stimulus_k, area_names_item, override, bit) ==
  LET valid == _validate_area_names_item(areas, area_names_item)
      failed(r) == [status |-> r.status, value |-> r.value, stimuli |-> stimuli,
                    input_bit |-> <<>>, generated |-> FALSE]
  IN IF valid.status # "ok" THEN failed(valid)
     ELSE IF HasKey(override, bit)
     THEN LET ov == _validate_override_input_bit(stimuli, Get(override, bit))
          IN IF ov.status # "ok" THEN failed(ov)
             ELSE [status |-> "ok", value |-> None, stimuli |-> stimuli,
                   input_bit |-> <<InputBitStimuli(Get(override, bit).names[1],
                                                   Get(override, bit).names[2],
                                                   ListOf(area_names_item))>>,
                   generated |-> FALSE]
     ELSE LET stimulus_0 == _get_available_stimulus_name(stimuli, area_names_item, 0)
              stimulus_1 == _get_available_stimulus_name(stimuli, area_names_item, 1)
          IN IF stimulus_0.status # "ok" THEN failed(stimulus_0)
             ELSE IF stimulus_1.status # "ok" THEN failed(stimulus_1)
             ELSE [status |-> "ok", value |-> None,
                   stimuli |-> add_stimulus(add_stimulus(stimuli, stimulus_0.value, stimulus_k),
                                            stimulus_1.value, stimulus_k),
                   input_bit |-> <<InputBitStimuli(stimulus_0.value, stimulus_1.value,
                                                   ListOf(area_names_item))>>,
                   generated |-> TRUE]

\* The areas of the brain InputStimuli is constructed on
InputBrainAreas == {"A", "B", "C", "out"}

\* The capacities the constructor is called with
StimulusKs == {1, 2}

\* The stimuli registered before the first constructor call: s0, s1, s2,
\* and possibly one that has the name the constructor would synthesize
InputBrains ==
  { << <<"s0", 3>>, <<"s1", 3>>, <<"s2", 3>> >>,
    << <<"s0", 3>>, <<"s1", 3>>, <<"s2", 3>>, <<"__s_A_1", 3>> >> }

Str(name) == [type |-> "str", names |-> <<name>>]
List(names) == [type |-> "list", names |-> names]
Other == [type |-> "other", names |-> <<>>]
Tuple(names) == [type |-> "tuple", names |-> names]

\* Area specifications: existing areas, one twice, lists, missing areas
\* (X, Y) at several places, something that is no name, the area with a
\* name of several characters alone, after another and in a list
ShortAreaNames ==
  { <<Str("A")>>, <<Str("A"), Str("A")>>, <<Str("A"), Str("B")>>,
    <<Str("A"), List(<<"A", "B">>)>>, <<List(<<"A", "B">>), List(<<"A", "B">>)>>,
    <<Str("A"), Str("X")>>, <<Str("X"), Str("Y")>>, <<Str("A"), List(<<"B", "Y", "X">>)>>,
    <<Str("A"), Other>>, <<Other, Str("X")>>, <<Str("A"), Str("A"), Str("X")>>,
    <<Str("out")>>, <<Str("A"), Str("out")>>, <<List(<<"out", "A">>)>> }

\* Overrides: none, the position 0 or 1 with registered stimuli, with a
\* stimulus or two that are not registered, with one name, with three
\* names, with no tuple; the position 1 with a stimulus that is not
\* registered, with no tuple
ShortOverrides ==
  { <<>>, << <<0, Tuple(<<"s0", "s1">>)>> >>, << <<1, Tuple(<<"s0", "s1">>)>> >>,
    << <<0, Tuple(<<"s0", "s9">>)>> >>, << <<0, Tuple(<<"s9", "s8">>)>> >>,
    << <<0, Tuple(<<"s0">>)>> >>, << <<0, Tuple(<<"s0", "s1", "s2">>)>> >>,
    << <<0, Other>> >>, << <<1, Tuple(<<"s0", "s9">>)>> >>, << <<1, Other>> >> }

\* Every combination with the first capacity, and some with the second
ShortArguments ==
  (ShortAreaNames \X ShortOverrides \X {1})
    \cup ({<<Str("A"), Str("A")>>, <<Str("A"), List(<<"A", "B">>)>>} \X {<<>>} \X StimulusKs)

\* No InputStimuli yet, on one of the brains
InitInput ==
  /\ InitSequence(<<>>)
  /\ InitModel("model", 1, "DEFAULT")
  /\ peer = <<>>
  /\ pure = NoPure
  /\ data_set = NoDataSet
  /\ scoped = NoScoped
  /\ brain_stimuli \in InputBrains
  /\ input_bits = <<>>
  /\ construction = NoConstruction

\* InputStimuli(brain, stimulus_k, *area_names, override=override), up to
\* the for loop of _generate_input_bits, with arguments of A
NewInputStimuli(A) ==
  \E a \in A :
    /\ construction.pc = "idle"
    /\ construction.number < MaxConstructions
    /\ construction' = [pc |-> "bits", number |-> construction.number + 1,
                        area_names |-> a[1], override |-> a[2], stimulus_k |-> a[3],
                        bit |-> 0, input_bits |-> <<>>, generated |-> <<>>]
    /\ UNCHANGED <<seqVars, last, modelVars, peer, pure, dataVars, brain_stimuli, input_bits>>

\* One pass of the for loop, which an exception leaves with the stimuli of
\* the earlier positions registered
GenerateInputBit ==
  /\ construction.pc = "bits"
  /\ construction.bit < Len(construction.area_names)
  /\ LET r == _generate_input_bit(InputBrainAreas, brain_stimuli, construction.stimulus_k,
                                  construction.area_names[construction.bit + 1],
                                  construction.override, construction.bit)
     IN /\ brain_stimuli' = r.stimuli
        /\ IF r.status = "ok"
           THEN /\ construction' = [construction EXCEPT
                                      !.bit = @ + 1,
                                      !.input_bits = @ \o r.input_bit,
                                      !.generated = Append(@, r.generated)]
                /\ UNCHANGED last
           ELSE /\ construction' = [construction EXCEPT !.pc = "idle"]
                /\ last' = Outcome("InputStimuli", r.status, r.value)
  /\ UNCHANGED <<seqVars, modelVars, peer, pure, dataVars, input_bits>>

\* _generate_input_bits returns and the constructor stores the list
ReturnInputStimuli ==
  /\ construction.pc = "bits"
  /\ construction.bit = Len(construction.area_names)
  /\ input_bits' = construction.input_bits
  /\ construction' = [construction EXCEPT !.pc = "idle"]
  /\ last' = Outcome("InputStimuli", "ok", None)
  /\ UNCHANGED <<seqVars, modelVars, peer, pure, dataVars, brain_stimuli>>

NextInput ==
  \/ NewInputStimuli(ShortArguments)
  \/ GenerateInputBit
  \/ ReturnInputStimuli

SpecInput == InitInput /\ [][NextInput]_vars

(***************************************************************************)
(* SpecAttempts: constructor calls with many positions over one area.      *)
(***************************************************************************)
\* 'A' for 1, MAX_ATTEMPTS - 1, MAX_ATTEMPTS and MAX_ATTEMPTS + 1 positions
LongArguments ==
  {<<[i \in 1..n |-> Str("A")], <<>>, 1>>
     : n \in {1, MAX_ATTEMPTS - 1, MAX_ATTEMPTS, MAX_ATTEMPTS + 1}}

NextAttempts ==
  \/ NewInputStimuli(LongArguments)
  \/ GenerateInputBit
  \/ ReturnInputStimuli

SpecAttempts == InitInput /\ [][NextAttempts]_vars

(***************************************************************************)
(* Properties of the scheduler (checked under Spec).                       *)
(***************************************************************************)
RECURSIVE Repeat(_, _)
Repeat(x, n) == IF n <= 0 THEN <<>> ELSE <<x>> \o Repeat(x, n - 1)

\* One cycle in declaration order: each index consecutive_runs times.
RECURSIVE CycleOrder(_, _)
CycleOrder(its, i) ==
  IF i > Len(its) THEN <<>>
  ELSE Repeat(i - 1, its[i].consecutive_runs) \o CycleOrder(its, i + 1)

RECURSIVE DrainOrder(_, _)
DrainOrder(its, cycles) ==
  IF cycles <= 0 THEN <<>> ELSE CycleOrder(its, 1) \o DrainOrder(its, cycles - 1)

\* The run has just been drained: __next__ raised its first StopIteration,
\* and no iteration was declared since initialize_run.
Drained ==
  /\ last.op = "__next__" /\ last.status = "StopIteration"
  /\ run.stops = 1
  /\ run.declared = Len(iterations)

\* C1: after initialize_run(c) with c >= 1, draining the iterator returns,
\* cycle after cycle, every declared iteration in declaration order, each
\* consecutive_runs times in a row, and then signals exhaustion.
C1_DrainOrder ==
  (Drained /\ configuration[1].number_of_cycles >= 1)
    => run.yielded = DrainOrder(iterations, configuration[1].number_of_cycles)

\* The same, for sequences whose iterations all have consecutive_runs >= 1.
DrainOrderOfPositiveRuns ==
  (/\ Drained /\ configuration[1].number_of_cycles >= 1
   /\ \A i \in 1..Len(iterations) : iterations[i].consecutive_runs >= 1)
    => run.yielded = DrainOrder(iterations, configuration[1].number_of_cycles)

\* C3: starting an iteration over the sequence fails with
\* SequenceRunNotInitialized exactly when no initialize_run has succeeded yet
\* or the current run has already returned an element; otherwise (a fresh
\* initialize_run, nothing returned since) it succeeds.
C3_IterNeedsFreshRun ==
  last.op = "__iter__" =>
    /\ last.status \in {"ok", "SequenceRunNotInitialized"}
    /\ last.status = "SequenceRunNotInitialized" <=> (~run.live \/ Len(run.yielded) >= 1)

C3_Witness ==
  /\ last.op = "__iter__" /\ last.status = "SequenceRunNotInitialized"
  /\ run.live /\ Len(run.yielded) >= 1

C3_WitnessFresh ==
  /\ last.op = "__iter__" /\ last.status = "ok"
  /\ run.live /\ run.yielded = <<>> /\ Len(iterations) = MaxIterations

(***************************************************************************)
(* Properties of declaration and validation (checked under SpecGraph).     *)
(***************************************************************************)
\* C2: add_iteration after finalize_sequence has returned normally (called
\* directly or through initialize_run) fails with SequenceFinalizationError.
C2_AddAfterFinalizeFails ==
  (last.op = "add_iteration" /\ ever_finalized) => last.status = "SequenceFinalizationError"

\* The destinations of kind output that the declared iterations name.
DeclaredOutputs ==
  { p[2] : p \in UNION { {it.stimuli_to_areas[k] : k \in 1..Len(it.stimuli_to_areas)}
                           \cup {it.input_bits_to_areas[k] : k \in 1..Len(it.input_bits_to_areas)}
                           \cup {it.areas_to_areas[k] : k \in 1..Len(it.areas_to_areas)}
                         : it \in {iterations[i] : i \in 1..Len(iterations)} } }
    \cap {a \in BrainOutputAreas : _verify_and_get_area(a) = "output"}

Finalizing == last.op \in {"finalize_sequence", "initialize_run"}

\* C4: finalize_sequence (and so initialize_run) fails with
\* IllegalOutputAreasException whenever the declared iterations name zero
\* output areas as destinations, or two or more.
C4_OutputAreasOfDeclaredIterations ==
  (Finalizing /\ Cardinality(DeclaredOutputs) # 1)
    => last.status = "IllegalOutputAreasException"

\* The same, as long as no add_iteration call has raised.
OutputAreasWithoutFailedAdds ==
  (Finalizing /\ failed_adds = 0)
    => (last.status = "IllegalOutputAreasException" <=> Cardinality(DeclaredOutputs) # 1)

\* The stimulus and input-bit nodes of g with no path to the output node out.
Unconnected(g, out) ==
  {n \in NodeSet(g) : n[1] \in {"stimulus", "input-bit"} /\ ~has_path(g, n, out)}

\* C5: with exactly one output node, finalize_sequence fails with
\* NoPathException, naming the source and the output, whenever a stimulus or
\* input-bit node declared in some iteration has no path to the output node
\* in the union graph of the declared iterations, and succeeds when every
\* one of them has a path.
C5_PathsOfDeclaredIterations ==
  (Finalizing /\ Len(NodesOfKind(graph, "output")) = 1) =>
    LET out == NodesOfKind(graph, "output")[1]
        g == DeclaredGraph(iterations, Len(iterations))
    IN IF Unconnected(g, out) = {}
       THEN last.status = "ok"
       ELSE /\ last.status = "NoPathException"
            /\ \E n \in Unconnected(g, out) : last.value = <<n[2], out[2]>>

\* The same, as long as no add_iteration call has raised.
PathsWithoutFailedAdds ==
  failed_adds = 0 => C5_PathsOfDeclaredIterations

(***************************************************************************)
(* Properties of the learning model (checked under SpecModel).             *)
(***************************************************************************)
ModelOperations == {"train_model", "test_model", "run_model"}

\* A model operation has just ended, by returning or by raising.
Ended(ops) == call.pc = "idle" /\ last.op \in ops

\* C6: train, test and run leave the mode of the brain as it was before the
\* operation on every exit path, including when brain.project raises in the
\* middle of the run.
C6_ModeRestoredOnEveryExit ==
  Ended(ModelOperations) => brain_mode = trace.entry_mode

\* The same for the exit paths on which brain.project has not raised.
ModeRestoredUnlessProjectRaises ==
  (Ended(ModelOperations) /\ last.status # "ProjectError") => brain_mode = trace.entry_mode

\* The projection that executes has the output area among its targets.
IntoOutput == \E t \in Targets(call.projection) : t \in DOMAIN brain_output_areas

\* C7: during train, in learning_model.py and in model.py, the brain is in
\* the training mode only while a projection into the output area
\* executes, and every projection into plain areas executes under the
\* default mode.
C7_ForcedModeOnlyIntoOutput ==
  call.op = "train_model" =>
    /\ (call.pc = "project" /\ ~IntoOutput) => brain_mode = "DEFAULT"
    /\ (brain_mode = "TRAINING" /\ trace.entry_mode # "TRAINING")
         => (call.pc = "project" /\ IntoOutput)

\* The same for learning_model.py alone.
ForcedModeOnlyIntoOutputLegacy ==
  impl = "learning_model" => C7_ForcedModeOnlyIntoOutput

\* No desired output differs from what it was when the operation was
\* called (an area created since has none).
DesiredOutputUntouched ==
  \A a \in DOMAIN brain_output_areas :
    brain_output_areas[a] = IF a \in DOMAIN trace.desired_before
                            THEN trace.desired_before[a]
                            ELSE <<>>

C8_WitnessModel ==
  /\ Ended({"run_model"}) /\ last.status = "ok"
  /\ impl = "model"
  /\ trace.entry_mode = "TRAINING" /\ trace.substrate_called
  /\ \E a \in DOMAIN brain_output_areas : brain_output_areas[a] # <<>>

\* C9: on a model not terminated, run_model(input_number) raises
\* DomainSizeMismatch for every input_number >= 2^domain_size, before any
\* call of the sequence or of the brain, and does not raise it for any
\* input_number in [0, 2^domain_size).
C9_DomainSizeMismatchIffOutOfDomain ==
  (Ended({"run_model"}) /\ ~inactivated) =>
    /\ last.status = "DomainSizeMismatch" <=> trace.input_number >= 2^domain_size
    /\ last.status = "DomainSizeMismatch"
         => (~trace.scheduler_called /\ ~trace.substrate_called)

\* The same for the domain sizes other than 29.
DomainSizeMismatchBelow29 ==
  domain_size # 29 => C9_DomainSizeMismatchIffOutOfDomain

\* C10: once terminate has run, every later train_model, test_model,
\* run_model and read of output_area raises ModelInactivated, whatever its
\* arguments and however many calls came before, and none of them calls the
\* brain: no operation gets past its entry, and the model's output area
\* stays removed.
C10_InactivatedModelRefuses ==
  inactivated =>
    /\ call.pc = "idle"
    /\ ModelOutputAreaName \notin DOMAIN brain_output_areas
    /\ last.op \in ModelOperations \cup {"output_area"} =>
         /\ last.status = "ModelInactivated"
         /\ ~trace.scheduler_called /\ ~trace.substrate_called

C10_Witness ==
  /\ inactivated /\ model_output_area # None
  /\ last.op = "run_model" /\ last.status = "ModelInactivated"
  /\ trace.input_number \in {0, 1}

\* A step that is a call of terminate on the model.
TerminateStep == call.pc = "idle" /\ call' = call /\ last'.op = "terminate"

\* C11: terminate is idempotent.  It raises nothing; the first call removes
\* the model's output area from the brain if the model had created one,
\* and nothing else; a later call changes neither the model nor the brain;
\* and a terminated model stays terminated, so that the area is removed at
\* most once.
C11_TerminateIdempotent ==
  [][/\ inactivated => inactivated'
     /\ TerminateStep =>
          /\ last'.status = "ok"
          /\ inactivated'
          /\ UNCHANGED <<seqVars, impl, domain_size, brain_mode, model_output_area,
                          call, ops_started, otherVars>>
          /\ brain_output_areas' =
               IF ~inactivated /\ model_output_area # None
               THEN remove_output_area(brain_output_areas, model_output_area)
               ELSE brain_output_areas]_vars

\* terminate has been called again on a model that had created its area.
C11_Witness ==
  /\ inactivated /\ last.op = "terminate" /\ last.status = "ok"
  /\ model_output_area = ModelOutputAreaName
  /\ ModelOutputAreaName \notin DOMAIN trace.desired_before

(***************************************************************************)
(* Properties of the output areas (checked under SpecAreas).               *)
(***************************************************************************)
\* A step that reads output_area on the model while it is not terminated.
OutputAreaStep ==
  ~inactivated /\ call.pc = "idle" /\ call' = call /\ last'.op = "output_area"

\* Both models are alive and have read their output area.
TwoLiveAreas ==
  /\ ~inactivated /\ model_output_area # None
  /\ peer # <<>> /\ ~peer[1].inactivated /\ peer[1].output_area # None

\* C12: the output area of a model is created on first access only.  The
\* first access registers one area under the model's own name, in place of
\* any area of that name the brain still held; every later access returns
\* that area and registers nothing; and the areas of two live models on
\* one brain have different names, both registered.
C12_OutputAreaCreatedOnce ==
  /\ [][OutputAreaStep =>
          /\ last'.status = "ok" /\ last'.value = ModelOutputAreaName
          /\ model_output_area' = ModelOutputAreaName
          /\ IF model_output_area = None
             THEN /\ trace'.substrate_called
                  /\ brain_output_areas' =
                       [a \in DOMAIN brain_output_areas \cup {ModelOutputAreaName} |->
                          IF a = ModelOutputAreaName THEN <<>> ELSE brain_output_areas[a]]
             ELSE /\ ~trace'.substrate_called
                  /\ UNCHANGED brain_output_areas]_vars
  /\ [](TwoLiveAreas =>
          /\ model_output_area # peer[1].output_area
          /\ {model_output_area, peer[1].output_area} \subseteq DOMAIN brain_output_areas)

\* The first access of the model has replaced an area that the brain held
\* under its name, while the second model is alive with its area.
C12_Witness ==
  /\ TwoLiveAreas
  /\ last.op = "output_area" /\ trace.substrate_called
  /\ ModelOutputAreaName \in DOMAIN trace.desired_before
  /\ trace.desired_before[ModelOutputAreaName] = <<1>>
  /\ brain_output_areas[ModelOutputAreaName] = <<>>

\* Both models are alive with their areas, and the model has read its own
\* again.
C12_WitnessLater ==
  /\ TwoLiveAreas
  /\ last.op = "output_area" /\ ~trace.substrate_called

\* A step in which train_model or test_model, called on a model that is not
\* terminated with a data set of another domain size, ends at once.
MismatchedSetStep ==
  /\ ~inactivated /\ call.pc = "idle" /\ call'.pc = "idle"
  /\ last'.op \in {"train_model", "test_model"}
  /\ trace'.set_domain_size \notin {<<>>, <<domain_size>>}

\* C13: train_model and test_model, given a data set whose domain_size is
\* not the model's, raise DomainSizeMismatch without drawing a data point,
\* without calling project, and without changing the mode of the brain,
\* the desired output or the run configuration of the sequence; no such
\* call gets as far as its loop.
C13_MismatchedSetChangesNothing ==
  /\ [][MismatchedSetStep =>
          /\ last'.status = "DomainSizeMismatch"
          /\ trace'.drawn = 0
          /\ ~trace'.scheduler_called /\ ~trace'.substrate_called
          /\ UNCHANGED <<seqVars, brain_mode, brain_output_areas, model_output_area,
                          inactivated, call>>]_vars
  /\ []((call.op \in {"train_model", "test_model"} /\ ~inactivated)
          => trace.set_domain_size = <<domain_size>>)

C13_Witness ==
  /\ Ended({"test_model"}) /\ last.status = "DomainSizeMismatch"
  /\ trace.set_domain_size # <<domain_size>> /\ ~inactivated
  /\ configuration # <<>> /\ model_output_area # None
\* The inputs of the runs of a test whose result was (matching = TRUE) or
\* was not (matching = FALSE) the expected output, in the order of the runs
RunInputsOf(runs, matching) ==
  LET chosen == SelectSeq(runs, LAMBDA r : (r.result = r.expected) = matching)
  IN [i \in 1..Len(chosen) |-> chosen[i].input]

TestInProgress == call.op = "test_model" /\ call.pc = "point"

\* test_model has returned its results and nothing was called since
TestReturned == last.op = "test_model" /\ last.status = "ok" /\ call.pc = "idle"

\* The runs of a test are the points of its test set, in order, as far as
\* they were drawn; its two lists split the inputs of these runs by whether
\* the run returned the expected output, each in the order of the runs.
TestPartition ==
  /\ TestInProgress =>
       /\ Len(trace.runs) = trace.drawn
       /\ \A i \in 1..Len(trace.runs) :
            /\ trace.runs[i].input = trace.points[i].input
            /\ trace.runs[i].expected = trace.points[i].output
       /\ call.true_positive = RunInputsOf(trace.runs, TRUE)
       /\ call.false_negative = RunInputsOf(trace.runs, FALSE)
  /\ TestReturned =>
       /\ Len(trace.runs) = Len(trace.points)
       /\ \A i \in 1..Len(trace.runs) :
            /\ trace.runs[i].input = trace.points[i].input
            /\ trace.runs[i].expected = trace.points[i].output
       /\ last.value.true_positive = RunInputsOf(trace.runs, TRUE)
       /\ last.value.false_negative = RunInputsOf(trace.runs, FALSE)
       /\ Len(last.value.true_positive) + Len(last.value.false_negative)
            = Len(trace.points)

\* C14 (as stated): test puts every input drawn from the test set into
\* exactly one of the two lists, in the order drawn, into true_positive iff
\* the run returned the expected output, and the reported accuracy is the
\* quotient |true_positive| / (|true_positive| + |false_negative|) itself
\* (in hundredths: accuracy * total = 100 * |true_positive|).
C14_AccuracyIsTheQuotient ==
  /\ TestPartition
  /\ TestReturned =>
       last.value.accuracy * Len(trace.points) = 100 * Len(last.value.true_positive)

\* C14 (amended): the same partition, and the reported accuracy of a
\* non-empty test set is the quotient rounded to two decimal places: the
\* hundredth nearest to it.
C14_AccuracyIsTheRoundedQuotient ==
  /\ TestPartition
  /\ TestReturned =>
       LET total == Len(trace.points)
           diff == last.value.accuracy * total - 100 * Len(last.value.true_positive)
       IN /\ total > 0
          /\ 2 * diff <= total
          /\ -2 * diff <= total

\* A test of three points of which the second and the third ran to the expected
\* output: 0.67 is reported
C14_Witness ==
  /\ TestReturned
  /\ Len(trace.points) = 3
  /\ Len(last.value.true_positive) = 2
  /\ Len(last.value.false_negative) = 1
  /\ trace.runs[1].result # trace.runs[1].expected
  /\ last.value.accuracy = 67

\* The pairs of the dictionary d whose key is key
EntriesOf(d, key) == SelectSeq(d, LAMBDA p : p[1] = key)

\* C15: the stim_to_area mapping that the legacy Iteration.format returns
\* holds, for every stimulus of active_stimuli, the entry the iteration
\* declares for it with the same destinations in the same order, and no
\* entry for any other stimulus; its area_to_area mapping is the
\* iteration's.
C15_LegacyFormatFiltersStimuli ==
  (pure.fn = "format" /\ pure.result # <<>>) =>
    LET it == pure.args[1]
        active_stimuli == pure.args[2]
        result == pure.result[1]
    IN /\ \A s \in {"A", "B", "C"} :
            EntriesOf(result.stim_to_area, s)
              = IF InSeq(s, active_stimuli) THEN EntriesOf(it.stimuli_to_areas, s)
                ELSE <<>>
       /\ \A k \in 1..Len(result.stim_to_area) :
            result.stim_to_area[k][1] \in {"A", "B", "C"}
       /\ result.area_to_area = it.areas_to_areas

\* An iteration firing A into A and B and firing B, formatted with only A
\* active
C15_Witness ==
  /\ pure.fn = "format"
  /\ pure.result # <<>>
  /\ pure.args[2] = <<"A">>
  /\ EntriesOf(pure.args[1].stimuli_to_areas, "B") # <<>>
  /\ pure.args[1].areas_to_areas # <<>>
  /\ pure.result[1].stim_to_area = <<<<"A", "A">>, <<"A", "B">>>>

\* Bit i (0-based, most significant first) of n written in d bits
BitOf(n, i, d) == (n \div 2^(d - 1 - i)) % 2

\* The conversion returned the d stimuli s_(2i + b_i), in list order
ConversionOf(_stimuli, n, d, result) ==
  /\ result.status = "ok"
  /\ Len(result.value) = d
  /\ \A i \in 0..d - 1 :
       /\ result.value[i + 1] = _stimuli[2 * i + BitOf(n, i, d) + 1]
       /\ ~InSeq(_stimuli[2 * i + (1 - BitOf(n, i, d)) + 1], result.value)

\* A model of domain size d with 2d stimuli, on a brain that still has 2d
\* stimuli, has converted an input of its domain
ConvertedInDomain ==
  /\ pure.fn = "_convert_input_to_stimuli"
  /\ pure.result # <<>>
  /\ Len(pure.args[1]) = 2 * pure.args[4]
  /\ pure.args[2] = 2 * pure.args[4]
  /\ pure.args[3] \in 0..2^pure.args[4] - 1

\* C16: for a model of domain size d with the stimuli s_0..s_(2d-1),
\* converting an input n of [0, 2^d) returns exactly d stimuli in list
\* order, for each i < d the stimulus s_(2i + b_i) where b_i is the i-th
\* most significant bit of n in d bits, and never both stimuli of a pair.
C16_ConversionSelectsOnePerBit ==
  ConvertedInDomain =>
    ConversionOf(pure.args[1], pure.args[3], pure.args[4], pure.result[1])

\* The same for the domain sizes below 29, where the logarithm of
\* _validate_input_number is exact
ConversionSelectsOnePerBitBelow29 ==
  (ConvertedInDomain /\ pure.args[4] < 29) =>
    ConversionOf(pure.args[1], pure.args[3], pure.args[4], pure.result[1])

\* The example of the documentation: stimuli A, B, C, D and the input 2
ConversionOfTwo ==
  /\ ConvertedInDomain
  /\ pure.args[1] = <<"A", "B", "C", "D">>
  /\ pure.args[3] = 2
  /\ pure.result[1].value = <<"B", "C">>

SetOf(l) == {l[k] : k \in 1..Len(l)}

\* The items of input_bits_to_areas whose position selects the stimulus x
\* for the input value
SelectingItems(it, input_stimuli, input_value, x) ==
  {k \in 1..Len(it.input_bits_to_areas) :
     LET bit_index == it.input_bits_to_areas[k][1]
     IN /\ bit_index < Len(input_stimuli)
        /\ __getitem__(input_stimuli[bit_index + 1],
                       BitOf(input_value, bit_index, Len(input_stimuli))) = x}

\* The destinations declared for the stimulus x: those of its explicit
\* entry and those of the input-bit items that select it
DeclaredFor(it, input_stimuli, input_value, x) ==
  SetOf(Get(it.stimuli_to_areas, x))
    \cup UNION {SetOf(it.input_bits_to_areas[k][2])
                  : k \in SelectingItems(it, input_stimuli, input_value, x)}

\* stim_to_area has exactly the explicit and the selected stimuli, each
\* once and with the duplicate-free union of its declared destinations
IsUnionOfDeclared(it, input_stimuli, input_value, result) ==
  /\ \A x \in StimuliOfFormat :
       /\ HasKey(result.stim_to_area, x)
            <=> \/ HasKey(it.stimuli_to_areas, x)
                \/ SelectingItems(it, input_stimuli, input_value, x) # {}
       /\ SetOf(Get(result.stim_to_area, x)) = DeclaredFor(it, input_stimuli, input_value, x)
       /\ Len(Get(result.stim_to_area, x))
            = Cardinality(DeclaredFor(it, input_stimuli, input_value, x))
  /\ \A j, k \in 1..Len(result.stim_to_area) :
       /\ result.stim_to_area[k][1] \in StimuliOfFormat
       /\ result.stim_to_area[j][1] = result.stim_to_area[k][1] => j = k
  /\ result.area_to_area = it.areas_to_areas

\* format of one of the modules F has returned a mapping
FormatReturned(F) ==
  /\ pure.fn \in F
  /\ pure.result # <<>>
  /\ pure.result[1].status = "ok"

\* C17: for every input value of [0, 2^n), the mapping Iteration.format
\* returns holds for each declared input-bit position the stimulus of that
\* position matching the bit's value (most significant bit first) and not
\* the opposite one, and maps each stimulus to the duplicate-free union of
\* the destinations of its explicit entry and of the input-bit items that
\* select it.
C17_FormatMapsToUnionOfDestinations ==
  FormatReturned({"Iteration.format", "LearningSequence.Iteration.format"}) =>
    IsUnionOfDeclared(pure.args[1], pure.args[2], pure.args[3], pure.result[1].value)

\* The same for the format of sequence_components/iteration.py alone, which
\* returns whenever the declared positions are positions of the input
FormatOfIterationModuleMapsToUnion ==
  (pure.fn = "Iteration.format" /\ pure.result # <<>>
     /\ \A k \in 1..Len(pure.args[1].input_bits_to_areas) :
          pure.args[1].input_bits_to_areas[k][1] < Len(pure.args[2]))
  => /\ pure.result[1].status = "ok"
     /\ IsUnionOfDeclared(pure.args[1], pure.args[2], pure.args[3], pure.result[1].value)

\* sequence_components/iteration.py joins the destinations of an explicit
\* entry and of a selecting bit
FormatOfIterationModuleJoined ==
  /\ FormatReturned({"Iteration.format"})
  /\ pure.args[1].stimuli_to_areas = << <<"s0", <<"B">>>> >>
  /\ pure.args[3] = 0
  /\ pure.result[1].value.stim_to_area = << <<"s0", <<"A", "B">>>> >>

\* components/sequence.py returns a destination twice
FormatOfSequenceModuleRepeats ==
  /\ FormatReturned({"LearningSequence.Iteration.format"})
  /\ pure.result[1].value.stim_to_area = << <<"s0", <<"A", "A">>>> >>

\* The names registered in the brain
Registered(stimuli) == {stimuli[i][1] : i \in 1..Len(stimuli)}

StimuliOfBit(input_bit) == {input_bit.stimulus_for_0, input_bit.stimulus_for_1}

\* A pass of the for loop has synthesized the stimuli of a position
SynthesizingStep ==
  /\ construction.pc = "bits"
  /\ Len(construction'.generated) = Len(construction.generated) + 1
  /\ construction'.generated[Len(construction'.generated)]

\* No stimulus of a position whose stimuli were synthesized is a stimulus
\* of another position of the list
NoSharedStimulus(bits, generated) ==
  \A p, q \in 1..Len(bits) :
    (p # q /\ generated[p]) => StimuliOfBit(bits[p]) \cap StimuliOfBit(bits[q]) = {}

\* C18: the two names synthesized for a position differ from each other
\* and from every name registered in the brain at that moment, and both
\* are then registered with capacity stimulus_k and nothing else changes in
\* the brain; so no name is registered twice and no position with
\* synthesized stimuli shares a stimulus with another position, also when
\* the same area is given for several positions.
C18_SynthesizedNamesAreFresh ==
  /\ [][SynthesizingStep =>
          LET input_bit == construction'.input_bits[Len(construction'.input_bits)]
          IN /\ input_bit.stimulus_for_0 # input_bit.stimulus_for_1
             /\ StimuliOfBit(input_bit) \cap Registered(brain_stimuli) = {}
             /\ Len(brain_stimuli') = Len(brain_stimuli) + 2
             /\ SubSeq(brain_stimuli', 1, Len(brain_stimuli)) = brain_stimuli
             /\ Registered(brain_stimuli')
                  = Registered(brain_stimuli) \cup StimuliOfBit(input_bit)
             /\ \A x \in StimuliOfBit(input_bit) :
                  Get(brain_stimuli', x) = construction.stimulus_k]_vars
  /\ [](/\ Cardinality(Registered(brain_stimuli)) = Len(brain_stimuli)
        /\ NoSharedStimulus(construction.input_bits, construction.generated))

\* InputStimuli(brain, k, 'A', 'A') has returned with four names
C18_Witness ==
  /\ last.op = "InputStimuli"
  /\ last.status = "ok"
  /\ construction.pc = "idle"
  /\ construction.area_names = <<Str("A"), Str("A")>>
  /\ input_bits = << InputBitStimuli("__s_A_0", "__s_A_1", <<"A">>),
                     InputBitStimuli("__s_A_0_(2)", "__s_A_1_(2)", <<"A">>) >>
  /\ \A x \in {"__s_A_0", "__s_A_1", "__s_A_0_(2)", "__s_A_1_(2)"} :
       Get(brain_stimuli, x) = construction.stimulus_k

\* On a brain that has a stimulus of the first name, the second is taken
SynthesizedAfterRegisteredName ==
  /\ last.op = "InputStimuli"
  /\ last.status = "ok"
  /\ construction.number = 1
  /\ input_bits = << InputBitStimuli("__s_A_0", "__s_A_1_(2)", <<"A">>) >>

\* The names _format_stimulus_name can give for an area specification and
\* a bit value that are registered
SynthesizableRegistered(stimuli, area_names_item, input_bit_value) ==
  {a \in 1..MAX_ATTEMPTS :
     HasKey(stimuli, _format_stimulus_name(Join(area_names_item.names), input_bit_value, a))}

\* All MAX_ATTEMPTS names of the specification are registered for one of
\* the bit values
Exhausted(stimuli, area_names_item) ==
  \E v \in {0, 1} :
    Cardinality(SynthesizableRegistered(stimuli, area_names_item, v)) = MAX_ATTEMPTS

\* A pass of the for loop at a position of existing areas without override
GeneratingStep ==
  /\ construction.pc = "bits"
  /\ construction.bit < Len(construction.area_names)
  /\ construction' # construction
  /\ _validate_area_names_item(InputBrainAreas,
                               construction.area_names[construction.bit + 1]).status = "ok"
  /\ ~HasKey(construction.override, construction.bit)

\* C19: a position gets its two names as long as fewer than MAX_ATTEMPTS
\* (100) names of its area specification are registered for each bit
\* value, and none beyond the MAX_ATTEMPTS-th attempt; once there are
\* MAX_ATTEMPTS the constructor fails at that position with
\* MaxAttemptsToGenerateStimuliReached and registers nothing for it.  So on
\* a brain without such names input bits over one area are created for
\* MAX_ATTEMPTS positions in total, and the next position fails.
C19_NameGenerationIsBounded ==
  /\ [][GeneratingStep =>
          LET item == construction.area_names[construction.bit + 1]
          IN IF Exhausted(brain_stimuli, item)
             THEN /\ construction'.pc = "idle"
                  /\ last'.op = "InputStimuli"
                  /\ last'.status = "MaxAttemptsToGenerateStimuliReached"
                  /\ brain_stimuli' = brain_stimuli
             ELSE /\ construction'.pc = "bits"
                  /\ construction'.bit = construction.bit + 1
                  /\ \A v \in {0, 1} :
                       Cardinality(SynthesizableRegistered(brain_stimuli', item, v))
                         = Cardinality(SynthesizableRegistered(brain_stimuli, item, v)) + 1
                  /\ Len(brain_stimuli') = Len(brain_stimuli) + 2]_vars
  /\ []((/\ construction.pc = "idle"
          /\ last.op = "InputStimuli"
          /\ last.status = "MaxAttemptsToGenerateStimuliReached")
         => Exhausted(brain_stimuli, construction.area_names[construction.bit + 1]))

\* On the brain with s0, s1, s2 only, MAX_ATTEMPTS + 1 positions over 'A'
\* fail at the last one, with the stimuli of MAX_ATTEMPTS positions
\* registered
C19_Witness ==
  /\ last.op = "InputStimuli"
  /\ last.status = "MaxAttemptsToGenerateStimuliReached"
  /\ construction.number = 1
  /\ Len(construction.area_names) = MAX_ATTEMPTS + 1
  /\ construction.bit = MAX_ATTEMPTS
  /\ Len(brain_stimuli) = 3 + 2 * MAX_ATTEMPTS
  /\ HasKey(brain_stimuli, "__s_A_0_(100)")
  /\ ~HasKey(brain_stimuli, "__s_A_0_(101)")

\* On that brain MAX_ATTEMPTS positions over 'A' are created
AllAttemptsUsed ==
  /\ last.op = "InputStimuli"
  /\ last.status = "ok"
  /\ construction.number = 1
  /\ Len(input_bits) = MAX_ATTEMPTS
  /\ Len(brain_stimuli) = 3 + 2 * MAX_ATTEMPTS

\* The positions (0-based) whose specification names an area that is not
\* an area of the brain
PositionsOfMissing(area_names) ==
  {p \in 0..Len(area_names) - 1 :
     /\ area_names[p + 1].type \in {"str", "list"}
     /\ FirstMissing(area_names[p + 1].names, InputBrainAreas) # <<>>}

\* The first of them
FirstPositionOfMissing(area_names) ==
  CHOOSE p \in PositionsOfMissing(area_names) :
    \A q \in PositionsOfMissing(area_names) : p <= q

\* The first name, in specification order, that is not an area
FirstMissingName(area_names) ==
  FirstMissing(area_names[FirstPositionOfMissing(area_names) + 1].names, InputBrainAreas)[1]

\* A constructor call has ended
ConstructionEnded ==
  /\ construction.pc = "idle"
  /\ construction.number > 0
  /\ last.op = "InputStimuli"

\* C20 (as stated): a constructor call whose specifications are names or
\* lists of names and name an area that is not an area of the brain fails
\* with MissingArea for the first such name in specification order.
C20_MissingAreaForFirstMissingName ==
  (/\ ConstructionEnded
   /\ \A i \in 1..Len(construction.area_names) :
        construction.area_names[i].type \in {"str", "list"}
   /\ PositionsOfMissing(construction.area_names) # {})
  => /\ last.status = "MissingArea"
     /\ last.value = FirstMissingName(construction.area_names)

\* C20 (amended): the constructor takes the specifications in order and
\* validates the areas of a specification, also of one that has an
\* override, before it does anything else for that position.  A call that
\* names a missing area never gets past the first position that does; if
\* it gets there (no earlier position failed) it fails there with
\* MissingArea for the first missing name in specification order, and
\* MissingArea is raised in this case only.
C20_MissingAreaUnlessFailedEarlier ==
  ConstructionEnded =>
    /\ PositionsOfMissing(construction.area_names) # {} =>
         /\ last.status # "ok"
         /\ construction.bit <= FirstPositionOfMissing(construction.area_names)
         /\ construction.bit = FirstPositionOfMissing(construction.area_names) =>
              /\ last.status = "MissingArea"
              /\ last.value = FirstMissingName(construction.area_names)
    /\ last.status = "MissingArea" =>
         /\ PositionsOfMissing(construction.area_names) # {}
         /\ construction.bit = FirstPositionOfMissing(construction.area_names)
         /\ last.value = FirstMissingName(construction.area_names)
         /\ Len(construction.input_bits) = construction.bit

\* InputStimuli(brain, k, 'A', ['B', 'Y', 'X']) has failed with
\* MissingArea('Y') with the stimuli of position 0 registered
C20_Witness ==
  /\ ConstructionEnded
  /\ construction.number = 1
  /\ construction.area_names = <<Str("A"), List(<<"B", "Y", "X">>)>>
  /\ last.status = "MissingArea"
  /\ last.value = "Y"
  /\ construction.bit = 1
  /\ HasKey(brain_stimuli, construction.input_bits[1].stimulus_for_0)

\* A position with an override is validated too
MissingAreaAtOverriddenPosition ==
  /\ ConstructionEnded
  /\ construction.area_names = <<Str("X"), Str("Y")>>
  /\ HasKey(construction.override, 0)
  /\ last.status = "MissingArea"
  /\ last.value = "X"

\* An invalid override of an earlier position is reported instead
MissingStimulusBeforeMissingArea ==
  /\ ConstructionEnded
  /\ construction.area_names = <<Str("A"), Str("X")>>
  /\ last.status = "MissingStimulus"

\* A pass of the for loop at a position of existing areas that has an
\* override
OverridingStep ==
  /\ construction.pc = "bits"
  /\ construction.bit < Len(construction.area_names)
  /\ construction' # construction
  /\ _validate_area_names_item(InputBrainAreas,
                               construction.area_names[construction.bit + 1]).status = "ok"
  /\ HasKey(construction.override, construction.bit)

\* The constructor call ends in this pass with the exception status
RaisedInStep(status) ==
  /\ construction'.pc = "idle"
  /\ last'.op = "InputStimuli"
  /\ last'.status = status

\* C21: when the constructor comes to a position that has an override, the
\* override is accepted only if it is a tuple of two names of registered
\* stimuli: something that is no tuple raises TypeError, a tuple of another
\* length ValueError, a name that is not registered MissingStimulus (for
\* the first such name); an accepted override makes its element 0 the
\* stimulus for 0 and its element 1 the stimulus for 1 of the position, and
\* in every case no stimulus is registered for the position.
C21_OverrideIsAValidatedPair ==
  [][OverridingStep =>
       LET ov == Get(construction.override, construction.bit)
       IN /\ brain_stimuli' = brain_stimuli
          /\ IF ov.type # "tuple" THEN RaisedInStep("TypeError")
             ELSE IF Len(ov.names) # 2 THEN RaisedInStep("ValueError")
             ELSE IF \E i \in 1..2 : ov.names[i] \notin Registered(brain_stimuli)
             THEN /\ RaisedInStep("MissingStimulus")
                  /\ last'.value = FirstMissing(ov.names, Registered(brain_stimuli))[1]
             ELSE /\ construction'.pc = "bits"
                  /\ construction'.bit = construction.bit + 1
                  /\ Len(construction'.input_bits) = construction.bit + 1
                  /\ SubSeq(construction'.input_bits, 1, construction.bit)
                       = construction.input_bits
                  /\ construction'.input_bits[construction.bit + 1].stimulus_for_0
                       = ov.names[1]
                  /\ construction'.input_bits[construction.bit + 1].stimulus_for_1
                       = ov.names[2]
                  /\ construction'.generated = Append(construction.generated, FALSE)]_vars

\* InputStimuli(brain, k, 'A', 'B', override={1: ('s0', 's1')}) has
\* returned: position 1 has s0 and s1, and only position 0 got new stimuli
C21_Witness ==
  /\ ConstructionEnded
  /\ construction.number = 1
  /\ last.status = "ok"
  /\ construction.area_names = <<Str("A"), Str("B")>>
  /\ input_bits[2] = InputBitStimuli("s0", "s1", <<"B">>)
  /\ input_bits[1].stimulus_for_0 = "__s_A_0"
  /\ Len(brain_stimuli) \in {5, 6}
  /\ ~HasKey(brain_stimuli, "__s_B_0")

\* The three refusals
OverrideRefusedAsNoTuple == ConstructionEnded /\ last.status = "TypeError"
                              /\ HasKey(construction.override, construction.bit)

OverrideRefusedForLength == ConstructionEnded /\ last.status = "ValueError"

OverrideRefusedForSecondName == ConstructionEnded /\ last.status = "MissingStimulus"
                                  /\ last.value = "s9"
                                  /\ Get(construction.override, 0).names = <<"s0", "s9">>

\* The edge add_iteration makes of a pair of the mapping of a kind
EdgeOf(kind, pair) ==
  << <<kind, pair[1]>>, <<_verify_and_get_area(pair[2]), pair[2]>> >>

\* How often the iteration it declares the edge e
DeclarationsOf(it, e) ==
  Cardinality({k \in 1..Len(it.stimuli_to_areas) : EdgeOf("stimulus", it.stimuli_to_areas[k]) = e})
  + Cardinality({k \in 1..Len(it.input_bits_to_areas) :
                   EdgeOf("input-bit", it.input_bits_to_areas[k]) = e})
  + Cardinality({k \in 1..Len(it.areas_to_areas) : EdgeOf("area", it.areas_to_areas[k]) = e})

\* The sum of consecutive_runs over the declarations of e in the first n
\* iterations
RECURSIVE DeclaredRuns(_, _, _)
DeclaredRuns(its, n, e) ==
  IF n = 0 THEN 0
  ELSE DeclaredRuns(its, n - 1, e) + its[n].consecutive_runs * DeclarationsOf(its[n], e)

\* The edges the iterations declare
DeclaredEdges(its) ==
  UNION { {EdgeOf("stimulus", it.stimuli_to_areas[k]) : k \in 1..Len(it.stimuli_to_areas)}
            \cup {EdgeOf("input-bit", it.input_bits_to_areas[k])
                    : k \in 1..Len(it.input_bits_to_areas)}
            \cup {EdgeOf("area", it.areas_to_areas[k]) : k \in 1..Len(it.areas_to_areas)}
          : it \in {its[i] : i \in 1..Len(its)} }

\* C22: as long as every add_iteration call has succeeded, the edges of
\* the graph are the declared connections and the weight of each is the
\* sum of consecutive_runs over every declaration of it: declaring a
\* connection again adds to its weight.
C22_WeightIsSumOfDeclaredRuns ==
  failed_adds = 0 =>
    /\ DOMAIN graph.weight = DeclaredEdges(iterations)
    /\ \A e \in DOMAIN graph.weight :
         graph.weight[e] = DeclaredRuns(iterations, Len(iterations), e)

\* The connection of stimulus A to area A, declared with 1 and then with 2
\* consecutive runs, has weight 3
C22_Witness ==
  /\ failed_adds = 0
  /\ Len(iterations) = 2
  /\ iterations[1].consecutive_runs = 1
  /\ iterations[2].consecutive_runs = 2
  /\ DeclarationsOf(iterations[1], << <<"stimulus", "A">>, <<"area", "A">> >>) = 1
  /\ DeclarationsOf(iterations[2], << <<"stimulus", "A">>, <<"area", "A">> >>) = 1
  /\ graph.weight[<< <<"stimulus", "A">>, <<"area", "A">> >>] = 3

\* A call that raised at its second connection has added to the weight of
\* its first
WeightOfFailedDeclaration ==
  /\ failed_adds = 1
  /\ iterations = <<>>
  /\ graph.weight[<< <<"stimulus", "A">>, <<"area", "A">> >>] = 2

(***************************************************************************)
(* The data sets.  A data set is an iterator over the data points of a     *)
(* labeling function; a mask splits the indices 0 .. 2^domain_size - 1     *)
(* between the training set and the testing set.  The variable data_set    *)
(* holds the fields of one set (self) and the history of what it yielded:  *)
(* the points of the pass in progress as _next gave them (the noise of     *)
(* __next__ shows in last only), the passes that ended, and for a training *)
(* set every index drawn since construction and the number of draws made   *)
(* before each shuffle.                                                    *)
(***************************************************************************)
MaxLength == 3
MaxPasses == 2

\* The labeling function of the tests
Labeling(x) == x % 2

\* DataSetBase.__getitem__: the data point of an index
base_data_set(index) == [input |-> index, output |-> Labeling(index)]

\* range(n)
range(n) == [i \in 1..n |-> i - 1]

\* An explicit mask is the list of its flags, flag i at position i + 1.
in_training_setOfAnyFlag(mask, index) == mask[index + 1] \in {0, 1}

in_training_set(mask, index) == mask[index + 1] # 0

in_testing_setOfRaisedFlag(mask, index) == mask[index + 1] # 0

in_testing_set(mask, index) == mask[index + 1] = 0

_get_training_indices(mask, d) ==
  SelectSeq(range(2^d), LAMBDA index : in_training_set(mask, index))

\* PartialDataSet.reset: the position before the first point of a pass
reset(self) == [self EXCEPT !._value = -1]

\* TrainingSet.__init__; noise stands for noise_probability > 0
TrainingSet(mask, d, length, noise) ==
  reset([mask |-> mask, domain_size |-> d, noise |-> noise,
         _length |-> length,
         _shuffled_indices |-> _get_training_indices(mask, d),
         _inner_index |-> -1, _value |-> 0])

\* The outcomes of random.shuffle on a list
Shuffles(list) ==
  {[i \in 1..Len(list) |-> list[p[i]]] : p \in Permutations(1..Len(list))}

_increment_inner_indexWithinLength(self, shuffled) ==
  LET inner == (self._inner_index + 1) % Len(self._shuffled_indices)
  IN  [self EXCEPT !._inner_index = inner,
                   !._shuffled_indices = IF self._value = 0 THEN shuffled ELSE @]

\* shuffled is what random.shuffle leaves in the list when it is called
_increment_inner_index(self, shuffled) ==
  LET inner == (self._inner_index + 1) % Len(self._shuffled_indices)
  IN  [self EXCEPT !._inner_index = inner,
                   !._shuffled_indices = IF inner = 0 THEN shuffled ELSE @]

_nextOfOneMore(self, shuffled) ==
  LET counted == [self EXCEPT !._value = @ + 1]
  IN  IF counted._value = self._length + 1
        THEN [self |-> reset(counted), status |-> "StopIteration", value |-> <<>>]
        ELSE IF Len(self._shuffled_indices) = 0
          THEN [self |-> counted, status |-> "ZeroDivisionError", value |-> <<>>]
          ELSE LET drawn == _increment_inner_index(counted, shuffled)
               IN  [self |-> drawn, status |-> "ok",
                    value |-> <<base_data_set(drawn._shuffled_indices[drawn._inner_index + 1])>>]

\* TrainingSet._next: the set after the call and what the call gave.  The
\* remainder by the length of an empty list raises ZeroDivisionError.
_next(self, shuffled) ==
  LET counted == [self EXCEPT !._value = @ + 1]
  IN  IF counted._value = self._length
        THEN [self |-> reset(counted), status |-> "StopIteration", value |-> <<>>]
        ELSE IF Len(self._shuffled_indices) = 0
          THEN [self |-> counted, status |-> "ZeroDivisionError", value |-> <<>>]
          ELSE LET drawn == _increment_inner_index(counted, shuffled)
               IN  [self |-> drawn, status |-> "ok",
                    value |-> <<base_data_set(drawn._shuffled_indices[drawn._inner_index + 1])>>]

\* PartialDataSet.__next__ on the point of _next: the output label is
\* flipped when the noise hits.
Noisy(point, flip) == IF flip THEN [point EXCEPT !.output = 1 - @] ELSE point

NewDataSet(kind, self) ==
  [kind |-> kind, self |-> self, yielded |-> <<>>, passes |-> <<>>,
   draws |-> <<>>, shuffles |-> <<>>]

TrainingMasks == {<<1, 1, 1, 0>>, <<0, 1, 0, 1>>, <<0, 0, 1, 0>>, <<0, 0, 0, 0>>}

InitTrainingSet ==
  /\ InitSequence(<<>>)
  /\ InitModel("model", 1, "DEFAULT")
  /\ peer = <<>>
  /\ brain_stimuli = <<>>
  /\ input_bits = <<>>
  /\ construction = NoConstruction
  /\ pure = NoPure
  /\ scoped = NoScoped
  /\ \E mask \in TrainingMasks, length \in 0..MaxLength, noise \in BOOLEAN :
       data_set = NewDataSet("training", TrainingSet(mask, 2, length, noise))

\* next(training_set): one call of __next__
TrainingSetNext ==
  /\ data_set.kind = "training"
  /\ Len(data_set.passes) < MaxPasses
  /\ \E shuffled \in Shuffles(data_set.self._shuffled_indices),
        flip \in (IF data_set.self.noise THEN BOOLEAN ELSE {FALSE}) :
       LET r == _next(data_set.self, shuffled)
           shuffling == r.status = "ok" /\ r.self._inner_index = 0
       IN  /\ data_set' =
                [data_set EXCEPT
                   !.self = r.self,
                   !.yielded = IF r.status = "ok" THEN Append(@, r.value[1])
                               ELSE IF r.status = "StopIteration" THEN <<>> ELSE @,
                   !.passes = IF r.status = "StopIteration"
                                THEN Append(@, data_set.yielded) ELSE @,
                   !.draws = IF r.status = "ok" THEN Append(@, r.value[1].input) ELSE @,
                   !.shuffles = IF shuffling THEN Append(@, Len(data_set.draws)) ELSE @]
           /\ last' = Outcome("__next__", r.status,
                              IF r.status = "ok" THEN <<Noisy(r.value[1], flip)>> ELSE <<>>)
  /\ UNCHANGED <<seqVars, modelVars, peer, inputVars, pure, scoped>>

NextTrainingSet == TrainingSetNext

SpecTrainingSet == InitTrainingSet /\ [][NextTrainingSet]_vars

(***************************************************************************)
(* C23.  A TrainingSet of declared length L yields exactly L data points   *)
(* in one pass and then signals the end of the pass, in the first pass and *)
(* in every later one.  The pool of training indices is not empty unless   *)
(* L is 0: a draw from an empty pool raises ZeroDivisionError.             *)
(***************************************************************************)
Drawable ==
  /\ data_set.kind = "training"
  /\ (Len(data_set.self._shuffled_indices) > 0 \/ data_set.self._length = 0)

PassesOfLength ==
  Drawable =>
    /\ \A p \in 1..Len(data_set.passes) :
         Len(data_set.passes[p]) = data_set.self._length
    /\ Len(data_set.yielded) <= data_set.self._length

EndsAfterLength ==
  (TrainingSetNext /\ Drawable) =>
    IF Len(data_set.yielded) = data_set.self._length
      THEN /\ last'.status = "StopIteration"
           /\ data_set'.yielded = <<>>
           /\ Len(data_set'.passes) = Len(data_set.passes) + 1
      ELSE /\ last'.status = "ok"
           /\ Len(data_set'.yielded) = Len(data_set.yielded) + 1
           /\ data_set'.passes = data_set.passes

PassOverEmptyPool ==
  /\ data_set.kind = "training"
  /\ data_set.self._length > 0
  /\ last.status = "ZeroDivisionError"

(***************************************************************************)
(* C24.  A TrainingSet draws only indices the mask reports as training     *)
(* indices.  Counting the draws since construction, across passes, every   *)
(* block of |pool| consecutive draws starting at the first draw holds each *)
(* index of the pool exactly once, and the list is shuffled exactly before *)
(* the first draw of each block.                                           *)
(***************************************************************************)
Pool == _get_training_indices(data_set.self.mask, data_set.self.domain_size)

\* The draws of block b (the first block is block 0), as far as they were made
Block(b) ==
  LET n == Len(Pool)
      upto == IF (b + 1) * n < Len(data_set.draws) THEN (b + 1) * n ELSE Len(data_set.draws)
  IN  SubSeq(data_set.draws, b * n + 1, upto)

BlocksStarted ==
  IF Len(data_set.draws) = 0 THEN 0 ELSE (Len(data_set.draws) - 1) \div Len(Pool) + 1

C24_DrawsConsumeShuffledPermutations ==
  data_set.kind = "training" =>
    /\ \A k \in 1..Len(data_set.draws) :
         in_training_set(data_set.self.mask, data_set.draws[k])
    /\ \A b \in 0..BlocksStarted - 1 :
         /\ \A i, j \in 1..Len(Block(b)) : Block(b)[i] = Block(b)[j] => i = j
         /\ Len(Block(b)) = Len(Pool) => SetOf(Block(b)) = SetOf(Pool)
    /\ Len(data_set.shuffles) = BlocksStarted
    /\ \A k \in 1..Len(data_set.shuffles) : data_set.shuffles[k] = (k - 1) * Len(Pool)

\* Two passes of two points over a pool of three indices: the fourth draw
\* is the first of the second block, after the second shuffle.
C24_Witness ==
  /\ data_set.kind = "training"
  /\ Len(Pool) = 3
  /\ Len(data_set.passes) = 2
  /\ Len(data_set.draws) = 4
  /\ data_set.shuffles = <<0, 3>>
  /\ SetOf(Block(0)) = SetOf(Pool)
  /\ data_set.self._shuffled_indices # Pool

(***************************************************************************)
(* The testing set and the explicit mask, as the tests of the data sets    *)
(* fix them: the set yields the points of the testing indices in the order *)
(* of range(2 ** domain_size), without noise, and can be iterated again.   *)
(***************************************************************************)
_get_testing_indicesDescending(mask, d) ==
  LET up == SelectSeq(range(2^d), LAMBDA index : in_testing_set(mask, index))
  IN  [i \in 1..Len(up) |-> up[Len(up) + 1 - i]]

_get_testing_indices(mask, d) ==
  SelectSeq(range(2^d), LAMBDA index : in_testing_set(mask, index))

\* create_testing_set_from_callable(lambda x: x % 2, d, mask)
TestingSet(mask, d) ==
  reset([mask |-> mask, domain_size |-> d,
         _indices |-> _get_testing_indices(mask, d), _value |-> 0])

\* next(testing_set): the set after the call and what the call gave
TestingSet_next(self) ==
  LET counted == [self EXCEPT !._value = @ + 1]
  IN  IF counted._value = Len(self._indices)
        THEN [self |-> reset(counted), status |-> "StopIteration", value |-> <<>>]
        ELSE [self |-> counted, status |-> "ok",
              value |-> <<base_data_set(self._indices[counted._value + 1])>>]

\* The mask of the tests, over a domain of 3 bits
ExampleMask == <<0, 0, 1, 1, 0, 1, 1, 1>>

\* Every explicit mask over a domain of 2 bits
ExplicitMasks == [1..4 -> {0, 1}]

InitTestingSet ==
  /\ InitSequence(<<>>)
  /\ InitModel("model", 1, "DEFAULT")
  /\ peer = <<>>
  /\ brain_stimuli = <<>>
  /\ input_bits = <<>>
  /\ construction = NoConstruction
  /\ pure = NoPure
  /\ scoped = NoScoped
  /\ \/ \E mask \in ExplicitMasks : data_set = NewDataSet("testing", TestingSet(mask, 2))
     \/ data_set = NewDataSet("testing", TestingSet(ExampleMask, 3))

TestingSetNext ==
  /\ data_set.kind = "testing"
  /\ Len(data_set.passes) < MaxPasses
  /\ LET r == TestingSet_next(data_set.self)
     IN  /\ data_set' =
              [data_set EXCEPT
                 !.self = r.self,
                 !.yielded = IF r.status = "ok" THEN Append(@, r.value[1]) ELSE <<>>,
                 !.passes = IF r.status = "ok" THEN @ ELSE Append(@, data_set.yielded)]
         /\ last' = Outcome("__next__", r.status, r.value)
  /\ UNCHANGED <<seqVars, modelVars, peer, inputVars, pure, scoped>>

NextTestingSet == TestingSetNext

SpecTestingSet == InitTestingSet /\ [][NextTestingSet]_vars

(***************************************************************************)
(* C25.  A TestingSet yields every index the mask reports as a testing     *)
(* index exactly once per pass, in strictly ascending order, each with the *)
(* exact result of the labeling function, and a second pass yields the     *)
(* same sequence.                                                          *)
(***************************************************************************)
TestingIndices ==
  {index \in 0..2^data_set.self.domain_size - 1 : in_testing_set(data_set.self.mask, index)}

Ascending(points) ==
  \A i, j \in 1..Len(points) : i < j => points[i].input < points[j].input

Exact(points) ==
  \A i \in 1..Len(points) : points[i].output = Labeling(points[i].input)

C25_TestingSetIsOrderedExactAndReusable ==
  data_set.kind = "testing" =>
    /\ \A p \in 1..Len(data_set.passes) :
         /\ {data_set.passes[p][i].input : i \in 1..Len(data_set.passes[p])} = TestingIndices
         /\ Ascending(data_set.passes[p])
         /\ Exact(data_set.passes[p])
         /\ data_set.passes[p] = data_set.passes[1]
    /\ Ascending(data_set.yielded)
    /\ Exact(data_set.yielded)
    /\ \A i \in 1..Len(data_set.yielded) : data_set.yielded[i].input \in TestingIndices
    /\ (last.op = "__next__" /\ last.status = "ok") =>
         last.value = <<data_set.yielded[Len(data_set.yielded)]>>

\* Two passes over the mask [0, 1, 0, 0] gave the points of 0, 2 and 3.
C25_Witness ==
  /\ data_set.kind = "testing"
  /\ data_set.self.mask = <<0, 1, 0, 0>>
  /\ Len(data_set.passes) = 2
  /\ data_set.passes[2] = <<base_data_set(0), base_data_set(2), base_data_set(3)>>
  /\ data_set.passes[1] = data_set.passes[2]

(***************************************************************************)
(* C26.  The example of the tests: the explicit mask                       *)
(* [0, 0, 1, 1, 0, 1, 1, 1] over 3 bits with the labeling x % 2.           *)
(***************************************************************************)
ExampleSet == data_set.kind = "testing" /\ data_set.self.mask = ExampleMask

Inputs(points) == [i \in 1..Len(points) |-> points[i].input]

Outputs(points) == [i \in 1..Len(points) |-> points[i].output]

NeverYields(indices) ==
  /\ \A i \in 1..Len(data_set.yielded) : data_set.yielded[i].input \notin indices
  /\ \A p \in 1..Len(data_set.passes) :
       \A i \in 1..Len(data_set.passes[p]) : data_set.passes[p][i].input \notin indices

\* As stated: the set yields the inputs [2, 3, 5, 6, 7] with the outputs
\* [0, 1, 1, 0, 1], and 0, 1 and 4 never appear.
C26_ExampleYieldsRaisedFlags ==
  ExampleSet =>
    /\ \A p \in 1..Len(data_set.passes) :
         /\ Inputs(data_set.passes[p]) = <<2, 3, 5, 6, 7>>
         /\ Outputs(data_set.passes[p]) = <<0, 1, 1, 0, 1>>
    /\ NeverYields({0, 1, 4})

\* C26, as the tests have it: the set yields the inputs [0, 1, 4] with the
\* outputs [0, 1, 0], in that order, and 2, 3, 5, 6 and 7 never appear.
C26_ExampleYieldsClearedFlags ==
  ExampleSet =>
    /\ \A p \in 1..Len(data_set.passes) :
         /\ Inputs(data_set.passes[p]) = <<0, 1, 4>>
         /\ Outputs(data_set.passes[p]) = <<0, 1, 0>>
    /\ NeverYields({2, 3, 5, 6, 7})

\* A pass over the example has ended.
C26_Witness ==
  /\ ExampleSet
  /\ Len(data_set.passes) = 1
  /\ Len(data_set.passes[1]) = 3
  /\ last.status = "StopIteration"

(***************************************************************************)
(* The two membership questions of an explicit mask, asked of one index.   *)
(***************************************************************************)
MaskArguments == {<<mask, index>> : mask \in ExplicitMasks, index \in 0..3}

InitMask == InitFunction("Mask", MaskArguments)

MaskMembership ==
  /\ pure.fn = "Mask"
  /\ Returns([in_training_set |-> in_training_set(pure.args[1], pure.args[2]),
              in_testing_set |-> in_testing_set(pure.args[1], pure.args[2])])

NextMask == MaskMembership

SpecMask == InitMask /\ [][NextMask]_vars

(***************************************************************************)
(* C27.  For an explicit mask and every index in range, in_training_set is *)
(* true iff the flag of the index is truthy and in_testing_set is true iff *)
(* it is falsy, so exactly one of the two holds.                           *)
(***************************************************************************)
Truthy(flag) == flag # 0

MaxOperations == 1
MaxProjections == 2

Models == {1, 2}

OtherModel(m) == 3 - m

OutsideOperation ==
  [pc |-> "idle", requested |-> None, wanted |-> None, original_mode |-> None,
   operations |-> 0, projections |-> 0, foreign |-> FALSE, wrong |-> FALSE,
   raised |-> FALSE]

InitScoped ==
  /\ InitSequence(<<>>)
  /\ \E mode \in BrainModes : InitModel("learning_model", 1, mode)
  /\ peer = <<>>
  /\ brain_stimuli = <<>>
  /\ input_bits = <<>>
  /\ construction = NoConstruction
  /\ pure = NoPure
  /\ data_set = NoDataSet
  /\ \E serialized \in BOOLEAN :
       scoped = [serialized |-> serialized, before |-> brain_mode, assigned_by |-> 0,
                 models |-> [m \in Models |-> OutsideOperation]]

ScopedUnchanged ==
  UNCHANGED <<seqVars, last, impl, domain_size, brain_output_areas, inactivated,
              model_output_area, call, trace, ops_started, peer, inputVars, pure, data_set>>

\* train_model, test_model or run_model begins: _run_learning_projection
\* with the mode of the operation
BeginOperation(m) ==
  /\ scoped.models[m].pc = "idle"
  /\ scoped.models[m].operations < MaxOperations
  /\ scoped.serialized => scoped.models[OtherModel(m)].pc = "idle"
  /\ \E requested \in {"TRAINING", "TESTING"} :
       scoped' = [scoped EXCEPT !.models[m].pc = "loop",
                                !.models[m].requested = requested,
                                !.models[m].projections = 0]
  /\ UNCHANGED brain_mode
  /\ ScopedUnchanged

\* with self._set_training_mode(...): the right-hand side of the tuple
\* assignment is evaluated
SaveMode(m) ==
  /\ scoped.models[m].pc = "loop"
  /\ scoped.models[m].projections < MaxProjections
  /\ \E target_is_output \in BOOLEAN :
       scoped' = [scoped EXCEPT
                    !.models[m].pc = "set",
                    !.models[m].original_mode = brain_mode,
                    !.models[m].wanted =
                       _get_brain_mode(scoped.models[m].requested, target_is_output)]
  /\ UNCHANGED brain_mode
  /\ ScopedUnchanged

\* ... and stored: self._brain.mode = brain_mode
SetMode(m) ==
  /\ scoped.models[m].pc = "set"
  /\ brain_mode' = scoped.models[m].wanted
  /\ scoped' = [scoped EXCEPT !.models[m].pc = "project", !.assigned_by = m]
  /\ ScopedUnchanged

Projected(m) ==
  [scoped EXCEPT
     !.models[m].projections = @ + 1,
     !.models[m].foreign = @ \/ scoped.assigned_by # m,
     !.models[m].wrong = @ \/ brain_mode # scoped.models[m].wanted]

\* self._brain.project(...) returns
ProjectInScope(m) ==
  /\ scoped.models[m].pc = "project"
  /\ scoped' = [Projected(m) EXCEPT !.models[m].pc = "restore"]
  /\ UNCHANGED brain_mode
  /\ ScopedUnchanged

\* self._brain.project(...) raises: the exception leaves the generator at
\* its yield and ends the operation
ProjectRaisesInScope(m) ==
  /\ scoped.models[m].pc = "project"
  /\ scoped' = [Projected(m) EXCEPT !.models[m].pc = "idle",
                                    !.models[m].operations = @ + 1,
                                    !.models[m].raised = TRUE]
  /\ UNCHANGED brain_mode
  /\ ScopedUnchanged

\* after the yield: self._brain.mode = original_mode
RestoreMode(m) ==
  /\ scoped.models[m].pc = "restore"
  /\ brain_mode' = scoped.models[m].original_mode
  /\ scoped' = [scoped EXCEPT !.models[m].pc = "loop", !.assigned_by = m]
  /\ ScopedUnchanged

\* the for loop over the sequence ends
EndOperation(m) ==
  /\ scoped.models[m].pc = "loop"
  /\ scoped.models[m].projections > 0
  /\ scoped' = [scoped EXCEPT !.models[m].pc = "idle",
                              !.models[m].operations = @ + 1]
  /\ UNCHANGED brain_mode
  /\ ScopedUnchanged

NextScoped ==
  \E m \in Models :
    \/ BeginOperation(m)
    \/ SaveMode(m)
    \/ SetMode(m)
    \/ ProjectInScope(m)
    \/ ProjectRaisesInScope(m)
    \/ RestoreMode(m)
    \/ EndOperation(m)

SpecScoped == InitScoped /\ [][NextScoped]_vars

(***************************************************************************)
(* C28.  When the projections of two models on one brain interleave, a     *)
(* projection can execute under a mode the other model assigned, and the   *)
(* mode after both have finished can differ from the mode before either    *)
(* started; when the operations are serialized neither can happen.         *)
(***************************************************************************)
BothFinished ==
  \A m \in Models : scoped.models[m].pc = "idle" /\ scoped.models[m].operations > 0

ForeignProjection == \E m \in Models : scoped.models[m].foreign

ModeChanged == BothFinished /\ brain_mode # scoped.before

InScoped == scoped # NoScoped

\* As stated: serialized operations have neither.
C28_SerializedModelsKeepTheMode ==
  (InScoped /\ scoped.serialized) => (~ForeignProjection /\ ~ModeChanged)

\* Serialized operations in which no projection raises have neither.
SerializedWithoutRaiseKeepTheMode ==
  (InScoped /\ scoped.serialized /\ \A m \in Models : ~scoped.models[m].raised)
    => (~ForeignProjection /\ ~ModeChanged /\ \A m \in Models : ~scoped.models[m].wrong)

\* Interleaved, without any raise: a projection ran under the mode the
\* other model wanted.
InterleavedProjectionUnderOtherMode ==
  /\ InScoped
  /\ ~scoped.serialized
  /\ \A m \in Models : ~scoped.models[m].raised
  /\ \E m \in Models : scoped.models[m].foreign /\ scoped.models[m].wrong

\* Interleaved, without any raise: both have finished and the mode is not
\* what it was.
InterleavedModeChanged ==
  /\ InScoped
  /\ ~scoped.serialized
  /\ \A m \in Models : ~scoped.models[m].raised
  /\ ModeChanged

\* Serialized: the projection of one model raised, both have finished, and
\* the mode is the one the raising projection ran under.
SerializedModeChangedByRaise ==
  /\ InScoped
  /\ scoped.serialized
  /\ ModeChanged
  /\ ~ForeignProjection

(***************************************************************************)
(* C29.  run_model surfaces an error whenever the output area holds no     *)
(* winner or more than one after the cycle; it returns a value only when   *)
(* there is exactly one winner.                                            *)
(***************************************************************************)
RunRead ==
  /\ call.pc = "idle"
  /\ last.op = "run_model"
  /\ trace.winners # <<>>

C29_RunSurfacesAnythingButOneWinner ==
  RunRead => (last.status = "ok" <=> Len(trace.winners[1]) = 1)

\* Without a winner run_model ends with the IndexError of winners[0].
RunOfNoWinnerRaises ==
  (RunRead /\ trace.winners[1] = <<>>) => last.status = "IndexError"

\* With the winners [1, 0] run_model returns 1.
RunOfTwoWinnersReturnsTheFirst ==
  /\ RunRead
  /\ trace.winners[1] = <<1, 0>>
  /\ last.status = "ok"
  /\ last.value = 1

(***************************************************************************)
(* C30.  Exhaustion is final for a run: once __next__ has raised           *)
(* StopIteration, every further __next__ without a fresh initialize_run    *)
(* raises it again and returns no iteration.                               *)
(***************************************************************************)
\* No iteration is declared in between.
C30_ExhaustionIsFinal == run.declared = Len(iterations) => run.late = 0

\* Every iteration was declared with consecutive_runs >= 1, and __next__
\* returned an iteration after it had raised StopIteration in the same run.
ResumesAfterExhaustion ==
  /\ \A k \in 1..Len(iterations) : iterations[k].consecutive_runs >= 1
  /\ run.declared = Len(iterations)
  /\ run.stops = 1
  /\ run.late = 1
  /\ last.op = "__next__" /\ last.status = "ok"

\* A sequence of a single iteration declared with consecutive_runs <= 1
\* stays exhausted.
SingleRunStaysExhausted ==
  (Len(iterations) = 1 /\ iterations[1].consecutive_runs <= 1 /\ run.declared = 1)
    => run.late = 0

(***************************************************************************)
(* C31.  After initialize_run(c), draining the iterator yields exactly     *)
(* c times the number of declared iterations elements.                     *)
(***************************************************************************)
C31_DrainYieldsCyclesTimesIterations ==
  Drained => Len(run.yielded) = configuration[1].number_of_cycles * Len(iterations)

RECURSIVE SumOfRuns(_, _)
SumOfRuns(its, n) ==
  IF n = 0 THEN 0 ELSE its[n].consecutive_runs + SumOfRuns(its, n - 1)

\* With c >= 1 and every consecutive_runs >= 1 the drain yields c times the
\* sum of the consecutive_runs.
DrainYieldsCyclesTimesRuns ==
  (/\ Drained /\ configuration[1].number_of_cycles >= 1
   /\ \A i \in 1..Len(iterations) : iterations[i].consecutive_runs >= 1)
    => Len(run.yielded) =
         configuration[1].number_of_cycles * SumOfRuns(iterations, Len(iterations))

\* One iteration declared with consecutive_runs = 2, one cycle: two elements.
DrainOfTwoRuns ==
  /\ Drained
  /\ Len(iterations) = 1
  /\ iterations[1].consecutive_runs = 2
  /\ configuration[1].number_of_cycles = 1
  /\ run.yielded = <<0, 0>>

(***************************************************************************)
(* C32.  A failure of the input-bit construction is not rolled back: when  *)
(* it fails at a position, the stimuli synthesized and registered for the  *)
(* positions before it remain registered in the brain.                     *)
(***************************************************************************)
ConstructionFailed == ConstructionEnded /\ last.status # "ok"

\* Both stimuli of the input bit made for the position p (0-based) are
\* registered with the capacity of the call
RegisteredFor(p) ==
  \A item \in {0, 1} :
    /\ HasKey(brain_stimuli, __getitem__(construction.input_bits[p + 1], item))
    /\ Get(brain_stimuli, __getitem__(construction.input_bits[p + 1], item))
         = construction.stimulus_k

FailingStep ==
  /\ GenerateInputBit
  /\ construction'.pc = "idle"

C32_FailureKeepsEarlierStimuli ==
  /\ [](ConstructionFailed =>
          \A p \in 0..construction.bit - 1 : construction.generated[p + 1] => RegisteredFor(p))
  /\ [][FailingStep => brain_stimuli' = brain_stimuli]_vars

\* 'A', 'A' and then the missing area 'X': the four stimuli of the first
\* two positions are registered.
C32_Witness ==
  /\ ConstructionFailed
  /\ construction.number = 1
  /\ construction.area_names = <<Str("A"), Str("A"), Str("X")>>
  /\ construction.override = <<>>
  /\ last.status = "MissingArea"
  /\ construction.generated = <<TRUE, TRUE>>
  /\ RegisteredFor(0) /\ RegisteredFor(1)
  /\ Len(brain_stimuli) >= 7

\* The same after an override that is no tuple, and after one that names a
\* stimulus that is not registered, at the second position.
KeptAfterMalformedOverride ==
  /\ ConstructionFailed
  /\ construction.generated = <<TRUE>>
  /\ last.status \notin {"MissingArea", "MissingStimulus"}
  /\ RegisteredFor(0)

KeptAfterMissingStimulus ==
  /\ ConstructionFailed
  /\ construction.generated = <<TRUE>>
  /\ last.status = "MissingStimulus"
  /\ RegisteredFor(0)

(***************************************************************************)
(* C33.  initialize_run(0) produces a run with no elements: the first      *)
(* __next__ raises StopIteration and no iteration is ever returned.        *)
(***************************************************************************)
RunOfNoCycles ==
  /\ run.live
  /\ configuration # <<>>
  /\ configuration[1].number_of_cycles = 0
  /\ run.declared = Len(iterations)

C33_NoCyclesNoElements == RunOfNoCycles => run.yielded = <<>>

\* One iteration declared with consecutive_runs = 2, initialize_run(0): the
\* iterator returned it twice before it raised StopIteration.
NoCyclesYieldACycle ==
  /\ RunOfNoCycles
  /\ Len(iterations) = 1
  /\ iterations[1].consecutive_runs = 2
  /\ run.yielded = <<0, 0>>
  /\ run.stops = 1
  /\ run.late = 0

\* The cycles begun never exceed number_of_cycles when it is >= 1.
CyclesWithinLimit ==
  (/\ run.live /\ configuration # <<>> /\ run.stops = 0
   /\ configuration[1].number_of_cycles >= 1)
    => configuration[1].current_cycle < configuration[1].number_of_cycles

(***************************************************************************)
(* C34.  Every Iteration recorded by add_iteration has consecutive_runs    *)
(* >= 1.                                                                   *)
(***************************************************************************)
C34_RecordedRunsArePositive ==
  \A k \in 1..Len(iterations) : iterations[k].consecutive_runs >= 1

\* The second of two iterations was declared with consecutive_runs = 0, and
\* the iterator has returned it.
ZeroRunsIterationReturned ==
  /\ Len(iterations) = 2
  /\ iterations[1].consecutive_runs = 1
  /\ iterations[2].consecutive_runs = 0
  /\ run.declared = 2
  /\ run.yielded = <<0, 1>>

(***************************************************************************)
(* C35.  In train_model, for each data point the desired output of the     *)
(* model's output area is the one-element list [output] from after         *)
(* initialize_run, before the first projection of the point, through all   *)
(* projections of the cycles of that point.                                *)
(***************************************************************************)
\* The name of the area self.output_area gives
OwnOutputArea == IF impl = "learning_model" THEN model_output_area ELSE output_area

TrainingPoint == call.op = "train_model" /\ call.pc \in {"loop", "project"}

C35_DesiredOutputHeldWhileTraining ==
  TrainingPoint =>
    /\ run.live
    /\ OwnOutputArea \in DOMAIN brain_output_areas
    /\ Len(call.desired_output) = 1
    /\ brain_output_areas[OwnOutputArea] = call.desired_output

\* The second training, with the output 1 after the output 0, projects
\* into the output area in its second cycle.
C35_Witness ==
  /\ TrainingPoint
  /\ call.pc = "project"
  /\ ops_started = 2
  /\ \E a \in DOMAIN trace.desired_before : trace.desired_before[a] = <<0>>
  /\ call.desired_output = <<1>>
  /\ configuration[1].current_cycle = 1
  /\ Len(run.yielded) > Len(iterations)

(***************************************************************************)
(* C36.  initialize_run always restarts from the beginning: before, in the *)
(* middle of, or after a run it replaces the cursor with cycle 0,          *)
(* iteration 0, run -1, not activated, and the drain that follows yields   *)
(* what the drain of a first run yields, however far the run before it had *)
(* advanced.                                                               *)
(***************************************************************************)
\* What next() returns, call after call, from the cursor cfg until it raises
RECURSIVE DrainFrom(_, _)
DrainFrom(cfg, its) ==
  LET r == __next__(cfg, its)
  IN IF r.status = "ok" THEN <<r.value>> \o DrainFrom(r.cfg, its) ELSE <<>>

FirstDrain(its, number_of_cycles) ==
  DrainFrom(<<IterationConfiguration(0, 0, -1, number_of_cycles)>>, its)

\* A step of initialize_run that did not raise
Restarted ==
  /\ last'.op = "initialize_run" /\ last'.status = "ok"
  /\ (run' # run \/ configuration' # configuration)

C36_InitializeRunRestarts ==
  /\ [][Restarted =>
          /\ configuration' = <<[current_cycle |-> 0, current_iter |-> 0, current_run |-> -1,
                                 number_of_cycles |-> last'.value, activated |-> FALSE]>>
          /\ run'.yielded = <<>>]_vars
  /\ [](Drained =>
          run.yielded = FirstDrain(iterations, configuration[1].number_of_cycles))

\* A run of two iterations was replaced after some of its elements, and the
\* new run has been drained: both iterations, in order, in both cycles.
C36_Witness ==
  /\ Drained
  /\ run.replaced = "midway"
  /\ Len(iterations) = 2
  /\ configuration[1].number_of_cycles = 2
  /\ run.yielded = <<0, 1, 0, 1>>

\* The same for a run replaced after it had been drained.
RestartedAfterExhaustion ==
  /\ Drained
  /\ run.replaced = "drained"
  /\ run.yielded = <<0, 1>>

(***************************************************************************)
(* C37.  A failed add_iteration is atomic: when it raises MissingStimulus  *)
(* or MissingArea, neither the iteration list nor the connectivity graph   *)
(* (nodes, edges, weights) has changed.                                    *)
(***************************************************************************)
\* A step of add_iteration that raised MissingStimulus or MissingArea
FailedAdd ==
  /\ failed_adds' = failed_adds + 1
  /\ last'.op = "add_iteration"
  /\ last'.status \in {"MissingStimulus", "MissingArea"}

C37_FailedAddIsAtomic ==
  [][FailedAdd => (iterations' = iterations /\ graph' = graph)]_vars

\* The iteration list is what the failed call leaves alone.
FailedAddKeepsIterations ==
  [][FailedAdd => iterations' = iterations]_vars

\* A call that raised MissingArea at its second connection has left its
\* first connection in the graph of a sequence with no iteration, and
\* finalize_sequence has accepted the sequence.
FailedAddLeftAnEdge ==
  /\ failed_adds = 1
  /\ iterations = <<>>
  /\ graph.nodes # <<>>
  /\ DOMAIN graph.weight # {}
  /\ last.op = "finalize_sequence"
  /\ last.status = "ok"

(***************************************************************************)
(* C38.  Cursor invariant: in every state after a successful               *)
(* initialize_run, advancing up to and including the first StopIteration,  *)
(* current_iter is a valid index into the declared iterations, current_run *)
(* is less than the consecutive_runs of the iteration at current_iter,     *)
(* current_cycle <= number_of_cycles, and every returned iteration is the  *)
(* one at current_iter.                                                    *)
(***************************************************************************)
\* A run up to and including its first StopIteration, of the iterations
\* declared when it was initialized
UpToFirstExhaustion ==
  /\ run.live
  /\ configuration # <<>>
  /\ run.stops <= 1 /\ run.late = 0
  /\ run.declared = Len(iterations)

CursorInRange(cfg, its) ==
  /\ cfg.current_iter >= 0 /\ cfg.current_iter < Len(its)
  /\ cfg.current_run < its[cfg.current_iter + 1].consecutive_runs
  /\ cfg.current_cycle <= cfg.number_of_cycles

ReturnedIsCurrent ==
  (last.op = "__next__" /\ last.status = "ok")
    => last.value = configuration[1].current_iter

C38_CursorInvariant ==
  UpToFirstExhaustion
    => (CursorInRange(configuration[1], iterations) /\ ReturnedIsCurrent)

\* The invariant of runs over iterations that all run at least once, for at
\* least one cycle.
PositiveRuns ==
  /\ iterations # <<>>
  /\ \A i \in 1..Len(iterations) : iterations[i].consecutive_runs >= 1

CursorInvariantOfPositiveRuns ==
  (UpToFirstExhaustion /\ PositiveRuns /\ configuration[1].number_of_cycles >= 1)
    => (CursorInRange(configuration[1], iterations) /\ ReturnedIsCurrent)

\* The cursor stands on an iteration declared with consecutive_runs = 0,
\* which next() has just returned: current_run = 0 is not below 0.
CursorOnZeroRunsIteration ==
  /\ UpToFirstExhaustion
  /\ last.op = "__next__" /\ last.status = "ok"
  /\ configuration[1].current_iter < Len(iterations)
  /\ iterations[configuration[1].current_iter + 1].consecutive_runs = 0
  /\ configuration[1].current_run = 0

\* A run of no cycles has stopped with current_cycle = 1 above its limit 0.
CursorAboveCycleLimit ==
  /\ UpToFirstExhaustion
  /\ run.stops = 1
  /\ configuration[1].number_of_cycles = 0
  /\ configuration[1].current_cycle = 1

(***************************************************************************)
(* C39.  For an area specification given as a single area name, of any     *)
(* length, the input bit's destination areas are exactly the one-element   *)
(* list of that name; for a specification given as a list of names they    *)
(* are exactly that list, in order.                                        *)
(***************************************************************************)
ConstructionReturned == ConstructionEnded /\ last.status = "ok"

C39_DestinationsAreTheSpecifiedAreas ==
  ConstructionReturned =>
    \A p \in 1..Len(input_bits) :
      input_bits[p].target_areas = construction.area_names[p].names

\* The same for names of one character and for lists.
DestinationsOfShortNamesAndLists ==
  ConstructionReturned =>
    \A p \in 1..Len(input_bits) :
      (construction.area_names[p].type = "list"
         \/ Len(Characters(construction.area_names[p].names[1])) = 1)
        => input_bits[p].target_areas = construction.area_names[p].names

\* The input bit of the area "out" has the destinations "o", "u", "t".
DestinationsAreCharacters ==
  /\ ConstructionReturned
  /\ construction.area_names = <<Str("out")>>
  /\ input_bits[1].target_areas = <<"o", "u", "t">>

\* The list ["out", "A"] is kept as it is.
DestinationsOfAList ==
  /\ ConstructionReturned
  /\ construction.area_names = <<List(<<"out", "A">>)>>
  /\ input_bits[1].target_areas = <<"out", "A">>

(***************************************************************************)
(* Format calls on one Iteration object.  The Iteration is the one of      *)
(* iterations; pure holds what add_iteration recorded and the InputStimuli *)
(* (args), and the calls made so far with what they gave (result).  The    *)
(* dictionary format works on holds, with every key and list, whether the  *)
(* list is the object that the Iteration's own dictionary holds.           *)
(***************************************************************************)
MaxFormatCalls == 2

\* A copy of d whose lists are the objects d holds
deepcopySharingLists(d) == [k \in 1..Len(d) |-> <<d[k][1], d[k][2], TRUE>>]

\* copy.deepcopy(d): every list of the copy is a new object
deepcopy(d) == [k \in 1..Len(d) |-> <<d[k][1], d[k][2], FALSE>>]

\* Whether the list at key of the working dictionary is the Iteration's
Shared(working, key) ==
  \E k \in 1..Len(working) : working[k][1] = key /\ working[k][3]

\* The list at key of the working dictionary, of a defaultdict(list)
Held(working, key) ==
  IF \E k \in 1..Len(working) : working[k][1] = key
  THEN working[CHOOSE k \in 1..Len(working) : working[k][1] = key][2]
  ELSE <<>>

\* The working dictionary with value at key, a list object that is or is
\* not the Iteration's
Bind(working, key, value, shared) ==
  IF \E k \in 1..Len(working) : working[k][1] = key
  THEN [k \in 1..Len(working) |->
          IF working[k][1] = key THEN <<key, value, shared>> ELSE working[k]]
  ELSE Append(working, <<key, value, shared>>)

\* The Iteration's stimuli_to_areas after the for loop of format, from the
\* k-th item of input_bits_to_areas on.  In sequence_components/iteration.py
\* the loop binds the key to the new list _union returns; in
\* components/sequence.py it extends the list at the key in place (+=),
\* which changes the Iteration's dictionary when the list is shared with
\* it.  An exception leaves the loop with what was done before it.
RECURSIVE format_selfFrom(_, _, _, _, _, _, _)
format_selfFrom(fn, items, k, input_value, input_stimuli, working, stimuli_to_areas) ==
  IF k > Len(items) THEN stimuli_to_areas
  ELSE LET bit_index == items[k][1]
           area_names == items[k][2]
       IN IF bit_index >= Len(input_value) \/ bit_index >= Len(input_stimuli)
          THEN stimuli_to_areas
          ELSE IF /\ fn = "LearningSequence.Iteration.format"
                  /\ sorted(input_stimuli[bit_index + 1].target_areas) # sorted(area_names)
          THEN stimuli_to_areas
          ELSE LET bit_value == input_value[bit_index + 1]
                   stimulus_name == __getitem__(input_stimuli[bit_index + 1], bit_value)
               IN IF fn = "Iteration.format"
                  THEN format_selfFrom(fn, items, k + 1, input_value, input_stimuli,
                         Bind(working, stimulus_name,
                              _union(area_names, Held(working, stimulus_name)), FALSE),
                         stimuli_to_areas)
                  ELSE format_selfFrom(fn, items, k + 1, input_value, input_stimuli,
                         Bind(working, stimulus_name,
                              Held(working, stimulus_name) \o area_names,
                              Shared(working, stimulus_name)),
                         IF Shared(working, stimulus_name)
                         THEN Put(stimuli_to_areas, stimulus_name,
                                  Get(stimuli_to_areas, stimulus_name) \o area_names)
                         ELSE stimuli_to_areas)

\* The Iteration after format(input_stimuli, input_value) of the class fn
format_self(fn, it, input_stimuli, input_value) ==
  [it EXCEPT !.stimuli_to_areas =
     format_selfFrom(fn, it.input_bits_to_areas, 1,
                     _to_bits(input_value, Len(input_stimuli)), input_stimuli,
                     deepcopy(it.stimuli_to_areas), it.stimuli_to_areas)]

\* An Iteration of the class fn as add_iteration recorded it, and an
\* InputStimuli; no format call yet
InitFormatCalls ==
  /\ InitModel("model", 1, "DEFAULT")
  /\ peer = <<>>
  /\ brain_stimuli = <<>>
  /\ input_bits = <<>>
  /\ construction = NoConstruction
  /\ data_set = NoDataSet
  /\ scoped = NoScoped
  /\ \E fn \in {"Iteration.format", "LearningSequence.Iteration.format"},
        it \in IterationsOfFormat, input_stimuli \in InputStimuliOfFormat :
       /\ InitSequence(<<it>>)
       /\ pure = [fn |-> fn, args |-> <<it, input_stimuli>>, result |-> <<>>]

\* iteration.format(input_stimuli, input_value) on the Iteration of the
\* class fn
FormatCall(fn) ==
  \E input_value \in 0..2^Len(pure.args[2]) - 1 :
    /\ pure.fn = fn
    /\ Len(pure.result) < MaxFormatCalls
    /\ iterations' = <<format_self(fn, iterations[1], pure.args[2], input_value)>>
    /\ pure' = [pure EXCEPT !.result =
                  Append(@, <<input_value,
                              IF fn = "Iteration.format"
                              THEN Iteration_format(iterations[1], pure.args[2], input_value)
                              ELSE LearningSequence_Iteration_format(iterations[1], pure.args[2],
                                                                     input_value)>>)]
    /\ UNCHANGED <<graph, finalized, output_area, configuration, run, failed_adds,
                   ever_finalized>>
    /\ UNCHANGED <<last, modelVars, peer, inputVars, dataVars>>

NextFormatCalls ==
  \/ FormatCall("Iteration.format")
  \/ FormatCall("LearningSequence.Iteration.format")

SpecFormatCalls == InitFormatCalls /\ [][NextFormatCalls]_vars

(***************************************************************************)
(* C40.  Iteration.format does not modify the Iteration: after any number  *)
(* of format calls with any input values, its three mappings and           *)
(* consecutive_runs equal what add_iteration recorded, so what format      *)
(* gives for an input value does not depend on the calls before it.        *)
(***************************************************************************)
FormatOfRecorded(input_value) ==
  IF pure.fn = "Iteration.format"
  THEN Iteration_format(pure.args[1], pure.args[2], input_value)
  ELSE LearningSequence_Iteration_format(pure.args[1], pure.args[2], input_value)

C40_FormatKeepsTheIteration ==
  /\ iterations = <<pure.args[1]>>
  /\ \A c \in 1..Len(pure.result) :
       pure.result[c][2] = FormatOfRecorded(pure.result[c][1])

\* Two calls of the format of components/sequence.py with the input value
\* 0 on an Iteration that fires s0 into A and whose bit 0 goes to A, where
\* s0 is the stimulus of bit 0 for the value 0: both gave s0 -> A, A.
C40_Witness ==
  /\ pure.fn = "LearningSequence.Iteration.format"
  /\ Len(pure.result) = 2
  /\ pure.args[1].stimuli_to_areas = << <<"s0", <<"A">>>> >>
  /\ pure.args[1].input_bits_to_areas = << <<0, <<"A">>>> >>
  /\ pure.args[2] = << InputBitStimuli("s0", "s1", <<"A">>) >>
  /\ \A c \in 1..2 :
       /\ pure.result[c][1] = 0
       /\ pure.result[c][2].status = "ok"
       /\ pure.result[c][2].value.stim_to_area = << <<"s0", <<"A", "A">>>> >>

====
